---------------------------- MODULE Spec2Model ----------------------------
(***************************************************************************)
(* Allocation optimisation engine of the Smart Warehouse Allocation System *)
(* (src/app_v2.py, src/app.py, src/db.py).                                 *)
(*                                                                         *)
(* Tables (pandas DataFrames) are sequences of records, in row order.      *)
(* Quantities are whole units.  Money is held in cents: the shipping rates *)
(* 0.12 and 0.18 per unit per 100 miles are 12 and 18, and distances are   *)
(* multiples of 100 miles, so Distance_Miles * rate / 100 is exact.        *)
(*                                                                         *)
(* scipy's linprog is modelled by what it guarantees: it reports failure   *)
(* when no point satisfies the constraints and otherwise returns some      *)
(* optimal point.  The constraint matrix built by the code is that of a    *)
(* network flow (warehouse -> inventory/shipped -> route -> demand), so    *)
(* with whole-unit data every vertex optimum is integral; the model lets   *)
(* the solver return any optimal lattice point.                            *)
(***************************************************************************)
EXTENDS Integers, Sequences, FiniteSets, TLC

VARIABLES
    warehouses,                 \* st.session_state.warehouses
    distribution_centers,       \* st.session_state.distribution_centers
    demand_forecast,            \* st.session_state.demand_forecast
    customer_allocation_plan,   \* st.session_state.customer_allocation_plan
    warehouse_inventory,        \* st.session_state.warehouse_inventory
    warehouse_schedule,         \* st.session_state.warehouse_schedule
    customer_selected_warehouses, \* st.session_state.customer_selected_warehouses
    smart_results,              \* st.session_state.smart_results
    customer_results,           \* st.session_state.customer_results
    smart_total,                \* total shown by "Run Smart Optimization"
    call,                       \* how the last engine call ended
    db,                         \* SQLite tables warehouse_schedule, warehouse_inventory
    projection,                 \* last table of projected available inventory
    v1,                         \* st.session_state of the first application (app.py)
    validation,                 \* validation table and outcome of the Customer Plan tab
    warnings,                   \* st.warning messages of the last plan costing
    lp,                         \* arguments and result of a solve_lp_with_inventory call
    auto_results                \* result of the last calculate_customer_cost_auto call

vars == <<warehouses, distribution_centers, demand_forecast,
          customer_allocation_plan, warehouse_inventory, warehouse_schedule,
          customer_selected_warehouses, smart_results, customer_results,
          smart_total, call, db, projection, v1, validation, warnings, lp,
          auto_results>>

---------------------------------------------------------------------------
(* Bounds of the model *)

(* largest demand / plan quantity of a row *)
MaxDemand == 2
(* capacity of a warehouse that is not tight *)
MaxCap == 3
(* largest quantity_on_hand of a ledger row *)
MaxOnHand == 2
(* largest scheduled inbound / outbound quantity *)
MaxFlow == 1

---------------------------------------------------------------------------
(* Program constants *)

Weeks == {3, 4}
tms_shipping_rate == 12
market_shipping_rate == 18
FallbackMiles == 500
DefaultCapacity == 100000
DefaultSKU == "32Q21K"
SkuList == <<"32Q21K", "SKU-B001", "SKU-C002">>

---------------------------------------------------------------------------
(* Generic helpers on tables *)

Max(a, b) == IF a >= b THEN a ELSE b
Min(a, b) == IF a <= b THEN a ELSE b

RECURSIVE SumSeq(_)
SumSeq(s) == IF s = <<>> THEN 0 ELSE Head(s) + SumSeq(Tail(s))

RECURSIVE Concat(_)
Concat(ss) == IF ss = <<>> THEN <<>> ELSE Head(ss) \o Concat(Tail(ss))

Map(s, Op(_)) == [i \in 1..Len(s) |-> Op(s[i])]

Range(s) == {s[i] : i \in 1..Len(s)}

(* Optional values: None, or a value *)
NoneDF == [none |-> TRUE, rows |-> <<>>]
SomeDF(rows) == [none |-> FALSE, rows |-> rows]
NoneCost == [none |-> TRUE, val |-> 0]
SomeCost(v) == [none |-> FALSE, val |-> v]

---------------------------------------------------------------------------
(* Geocoding / distance service (external collaborator) *)

geodesic_miles(wh_address, dc_address) ==
    IF dc_address = "San Francisco, CA"
    THEN (IF wh_address = "W1" THEN 100 ELSE 200)
    ELSE IF dc_address = "Philadelphia, PA"
    THEN (IF wh_address = "W1" THEN 200 ELSE 100)
    ELSE 0

Geocodable(address) ==
    address \in {"W1", "W2", "San Francisco, CA", "Philadelphia, PA"}

calculate_distance_from_addresses(address1, address2) ==
    IF ~Geocodable(address1) \/ ~Geocodable(address2)
    THEN FallbackMiles
    ELSE geodesic_miles(address1, address2)

(* One row per (warehouse, DC) pair, warehouses outermost.  An empty list *)
(* of rows makes a DataFrame without columns.                              *)
calculate_distance_matrix(whs, dcs) ==
    Concat(Map(whs, LAMBDA wh :
        Map(dcs, LAMBDA dc :
            [Warehouse |-> wh.Name,
             DC_Channel |-> dc.Channel,
             DC_State |-> dc.State,
             DC_Address |-> dc.Address,
             Distance_Miles |->
                 calculate_distance_from_addresses(wh.Address, dc.Address)])))

(* costs['Distance_Miles'] raises KeyError on a DataFrame with no columns *)
calculate_shipping_costs(distance_matrix, rate) ==
    IF distance_matrix = <<>>
    THEN [raised |-> TRUE, rows |-> <<>>]
    ELSE [raised |-> FALSE,
          rows |-> Map(distance_matrix, LAMBDA d :
              [Warehouse |-> d.Warehouse,
               DC_Channel |-> d.DC_Channel,
               DC_State |-> d.DC_State,
               Distance_Miles |-> d.Distance_Miles,
               Cost_Per_Unit |-> (d.Distance_Miles * rate) \div 100])]

---------------------------------------------------------------------------
(* Persistence layer (src/db.py): the tables the projectors read *)

(* row.get(field, default) on a pandas row *)
Get(row, field, default) ==
    IF field \in DOMAIN row THEN row[field] ELSE default

(* INSERT ... ON CONFLICT(warehouse_name, sku_code) DO UPDATE: the row of *)
(* the key is rewritten in place, a new key is appended                   *)
Upsert(rows, new) ==
    IF \E i \in 1..Len(rows) : /\ rows[i].warehouse_name = new.warehouse_name
                                /\ rows[i].sku_code = new.sku_code
    THEN [i \in 1..Len(rows) |->
             IF /\ rows[i].warehouse_name = new.warehouse_name
                /\ rows[i].sku_code = new.sku_code
             THEN new ELSE rows[i]]
    ELSE Append(rows, new)

update_warehouse_inventory(db_inventory, warehouse_name, sku_code, qty_on_hand) ==
    Upsert(db_inventory,
           [warehouse_name |-> warehouse_name, sku_code |-> sku_code,
            quantity_on_hand |-> qty_on_hand])

save_warehouse_schedule(db_schedule, warehouse_name, sku_code, in_w3, in_w4, out_w1, out_w2) ==
    Upsert(db_schedule,
           [warehouse_name |-> warehouse_name, sku_code |-> sku_code,
            incoming_week3 |-> in_w3, incoming_week4 |-> in_w4,
            outgoing_week1 |-> out_w1, outgoing_week2 |-> out_w2])

CapacityOf(whs, name) ==
    (SelectSeq(whs, LAMBDA w : w.Name = name))[1].Capacity

(* SELECT ws.*, w.capacity FROM warehouse_schedule ws JOIN warehouses w,  *)
(* optionally WHERE ws.warehouse_name = ?                                  *)
ScheduleJoinWarehouses(db_schedule, whs) ==
    Map(SelectSeq(db_schedule, LAMBDA ws :
            \E i \in 1..Len(whs) : whs[i].Name = ws.warehouse_name),
        LAMBDA ws :
            [warehouse_name |-> ws.warehouse_name,
             sku_code |-> ws.sku_code,
             incoming_week3 |-> ws.incoming_week3,
             incoming_week4 |-> ws.incoming_week4,
             outgoing_week1 |-> ws.outgoing_week1,
             outgoing_week2 |-> ws.outgoing_week2,
             capacity |-> CapacityOf(whs, ws.warehouse_name)])

get_warehouse_schedule(db_schedule, whs) ==
    Map(ScheduleJoinWarehouses(db_schedule, whs), LAMBDA r :
        [Warehouse |-> r.warehouse_name,
         SKU |-> r.sku_code,
         Incoming_Week3 |-> r.incoming_week3,
         Incoming_Week4 |-> r.incoming_week4,
         Outgoing_Week1 |-> r.outgoing_week1,
         Outgoing_Week2 |-> r.outgoing_week2,
         capacity |-> r.capacity])

get_warehouse_schedule_by_warehouse(db_schedule, whs, warehouse_name) ==
    SelectSeq(ScheduleJoinWarehouses(db_schedule, whs),
              LAMBDA r : r.warehouse_name = warehouse_name)

(* db.calculate_available_inventory(warehouse_name, sku_code, week) *)
db_calculate_available_inventory(db_schedule, whs, warehouse_name, sku_code, week) ==
    LET schedule == get_warehouse_schedule_by_warehouse(db_schedule, whs,
                                                        warehouse_name)
        sku_row == SelectSeq(schedule, LAMBDA r : r.sku_code = sku_code)
    IN IF schedule = <<>> \/ sku_row = <<>>
       THEN 0
       ELSE LET inv == sku_row[1]
                current == Get(inv, "quantity_on_hand", 0)
                in_w3 == Get(inv, "incoming_week3", 0)
                in_w4 == Get(inv, "incoming_week4", 0)
                out_w1 == Get(inv, "outgoing_week1", 0)
                out_w2 == Get(inv, "outgoing_week2", 0)
                available ==
                    IF week = 3 THEN current + in_w3 - out_w1 - out_w2
                    ELSE IF week = 4 THEN current + in_w3 + in_w4 - out_w1 - out_w2
                    ELSE current
            IN Max(0, available)

---------------------------------------------------------------------------
(* Inventory projector *)

(* schedule['Warehouse'].unique(): warehouses in order of first appearance *)
RECURSIVE UniqueSeq(_)
UniqueSeq(s) ==
    IF s = <<>> THEN <<>>
    ELSE LET h == Head(s)
         IN <<h>> \o UniqueSeq(SelectSeq(Tail(s), LAMBDA x : x # h))

ProjectRow(row, inventory_df, week) ==
    LET inv_match == SelectSeq(inventory_df, LAMBDA i :
                         i.warehouse_name = row.Warehouse /\ i.sku_code = row.SKU)
        current_inv == SumSeq(Map(inv_match, LAMBDA i : i.quantity_on_hand))
        available ==
            IF week = 3
            THEN current_inv + row.Incoming_Week3
                     - row.Outgoing_Week1 - row.Outgoing_Week2
            ELSE IF week = 4
            THEN current_inv + row.Incoming_Week3 + row.Incoming_Week4
                     - row.Outgoing_Week1 - row.Outgoing_Week2
            ELSE current_inv
    IN [Name |-> row.Warehouse, SKU |-> row.SKU, Available |-> Max(0, available)]

(* sched is the session's warehouse_schedule: [loaded, rows] *)
calculate_available_inventory(week, sched, inventory_df, whs) ==
    LET schedule == IF sched.loaded THEN sched.rows ELSE <<>>
    IN IF schedule = <<>>
       THEN Map(whs, LAMBDA w : [Name |-> w.Name, SKU |-> "", Available |-> 0])
       ELSE Concat(Map(UniqueSeq(Map(schedule, LAMBDA r : r.Warehouse)),
                LAMBDA wh :
                    Map(SelectSeq(schedule, LAMBDA r : r.Warehouse = wh),
                        LAMBDA row : ProjectRow(row, inventory_df, week))))

(* inventory[inventory['Name'] == wh]['Available'].values[0], else 0 *)
FirstAvailable(inventory, wh_name) ==
    LET avail == SelectSeq(inventory, LAMBDA i : i.Name = wh_name)
    IN IF Len(avail) > 0 THEN avail[1].Available ELSE 0

---------------------------------------------------------------------------
(* Route builder (the demand x shipping-cost join of the three solvers) *)

(* target = <<>> stands for "no warehouse filter" (optimise over all) *)
BuildRoutes(demand, shipping_costs, inventory, week, filtered, target) ==
    Concat(Map(demand, LAMBDA d :
        Map(SelectSeq(shipping_costs, LAMBDA c :
                /\ c.DC_Channel = d.Channel
                /\ c.DC_State = d.State
                /\ (filtered => c.Warehouse \in target)),
            LAMBDA cost :
                [Product |-> d.Product,
                 Warehouse |-> cost.Warehouse,
                 Channel |-> d.Channel,
                 State |-> d.State,
                 Demand |-> IF week = 3 THEN d.Demand_Week3 ELSE d.Demand_Week4,
                 Cost_Per_Unit |-> cost.Cost_Per_Unit,
                 Distance_Miles |-> cost.Distance_Miles,
                 Current_Available |-> FirstAvailable(inventory, cost.Warehouse)])))

---------------------------------------------------------------------------
(* LP allocation solver *)

RECURSIVE SumOver(_, _)
SumOver(f, S) ==
    IF S = {} THEN 0
    ELSE LET i == CHOOSE j \in S : TRUE
         IN f[i] + SumOver(f, S \ {i})

DemandKey(r) == <<r.Product, r.Channel, r.State>>

(* groupby(['Product','Channel','State'])['Demand'].first() *)
unique_demands(allocation_df) ==
    [key \in {DemandKey(allocation_df[i]) : i \in 1..Len(allocation_df)} |->
        LET first == CHOOSE i \in 1..Len(allocation_df) :
                /\ DemandKey(allocation_df[i]) = key
                /\ \A j \in 1..(i-1) : DemandKey(allocation_df[j]) # key
        IN allocation_df[first].Demand]

unique_warehouses(allocation_df) ==
    {allocation_df[i].Warehouse : i \in 1..Len(allocation_df)}

avail_val(inventory_df, wh_name) == Max(0, FirstAvailable(inventory_df, wh_name))

cap_val(warehouses_df, wh_name) ==
    LET cap == SelectSeq(warehouses_df, LAMBDA w : w.Name = wh_name)
    IN IF Len(cap) > 0 THEN cap[1].Capacity ELSE DefaultCapacity

KeyMask(allocation_df, k, key) ==
    {i \in 1..k : DemandKey(allocation_df[i]) = key}
WhMask(allocation_df, k, wh_name) ==
    {i \in 1..k : allocation_df[i].Warehouse = wh_name}

x_inv(x) == [i \in 1..Len(x) |-> x[i][1]]
x_ship(x) == [i \in 1..Len(x) |-> x[i][2]]
x_units(x) == [i \in 1..Len(x) |-> x[i][1] + x[i][2]]

(* 1. Demand constraints: x_inv + x_ship = Demand, one per unique demand *)
DemandConstraints(allocation_df, x) ==
    LET ud == unique_demands(allocation_df)
    IN \A key \in DOMAIN ud :
        SumOver(x_units(x), KeyMask(allocation_df, Len(x), key)) = ud[key]

(* Variant: the ceiling applied to each route separately *)
InventoryConstraint_PerRoute(allocation_df, x, inventory_df, wh_name) ==
    \A i \in WhMask(allocation_df, Len(x), wh_name) :
        x[i][1] <= avail_val(inventory_df, wh_name)

(* 2. Inventory constraints: Sum(x_inv) <= Available, one per warehouse *)
InventoryConstraint(allocation_df, x, inventory_df, wh_name) ==
    SumOver(x_inv(x), WhMask(allocation_df, Len(x), wh_name))
        <= avail_val(inventory_df, wh_name)

InventoryConstraints(allocation_df, x, inventory_df) ==
    \A wh_name \in unique_warehouses(allocation_df) :
        InventoryConstraint(allocation_df, x, inventory_df, wh_name)

(* Variant: the capacity rows are added whatever the flag *)
CapacityConstraints_Always(allocation_df, x, warehouses_df, ignore_capacity) ==
    \A wh_name \in unique_warehouses(allocation_df) :
        SumOver(x_units(x), WhMask(allocation_df, Len(x), wh_name))
            <= cap_val(warehouses_df, wh_name)

(* Variant: only shipped units count against capacity *)
CapacityConstraint_ShippedOnly(allocation_df, x, warehouses_df, wh_name) ==
    SumOver(x_ship(x), WhMask(allocation_df, Len(x), wh_name))
        <= cap_val(warehouses_df, wh_name)

(* 3. Capacity constraints: Sum(x_inv + x_ship) <= Capacity *)
CapacityConstraint(allocation_df, x, warehouses_df, wh_name) ==
    SumOver(x_units(x), WhMask(allocation_df, Len(x), wh_name))
        <= cap_val(warehouses_df, wh_name)

CapacityConstraints(allocation_df, x, warehouses_df, ignore_capacity) ==
    ignore_capacity \/
    \A wh_name \in unique_warehouses(allocation_df) :
        CapacityConstraint(allocation_df, x, warehouses_df, wh_name)

LPFeasible(allocation_df, x, inventory_df, warehouses_df, ignore_capacity) ==
    /\ \A i \in 1..Len(x) : x[i][1] >= 0 /\ x[i][2] >= 0
    /\ DemandConstraints(allocation_df, x)
    /\ InventoryConstraints(allocation_df, x, inventory_df)
    /\ CapacityConstraints(allocation_df, x, warehouses_df, ignore_capacity)

(* Variant: units taken from inventory are charged like shipped units *)
LPObjective_AllUnits(allocation_df, x) ==
    SumOver([i \in 1..Len(x) |->
                allocation_df[i].Cost_Per_Unit * (x[i][1] + x[i][2])],
            1..Len(x))

(* Variant: every shipped unit is charged the same, whatever its route *)
LPObjective_Uniform(allocation_df, x) ==
    SumOver([i \in 1..Len(x) |-> x[i][2]], 1..Len(x))

(* c = [0 ... 0, Cost_Per_Unit ...]; the objective is c . x *)
LPObjective(allocation_df, x) ==
    SumOver([i \in 1..Len(x) |-> allocation_df[i].Cost_Per_Unit * x[i][2]],
            1..Len(x))

(* Lattice points that can still satisfy the constraints: every variable  *)
(* is non-negative, so no prefix of a feasible point exceeds the          *)
(* right-hand side of a constraint, and a prefix that holds the last      *)
(* route of a demand key already meets that key's demand row.  b_eq and   *)
(* b_inv give, for each route, the right-hand sides of its demand and     *)
(* inventory constraints.                                                  *)
PrefixOK(allocation_df, p, b_eq, inventory_df, warehouses_df, ignore_capacity) ==
    LET k == Len(p)
        r == allocation_df[k]
        units == SumOver(x_units(p), KeyMask(allocation_df, k, DemandKey(r)))
    IN /\ units <= b_eq[k]
       /\ (\A j \in (k + 1)..Len(allocation_df) :
               DemandKey(allocation_df[j]) # DemandKey(r)) => units = b_eq[k]
       /\ InventoryConstraint(allocation_df, p, inventory_df, r.Warehouse)
       /\ ignore_capacity \/
              CapacityConstraint(allocation_df, p, warehouses_df, r.Warehouse)

RECURSIVE LatticePoints(_, _, _, _, _, _, _)
LatticePoints(allocation_df, k, b_eq, b_inv, inventory_df, warehouses_df, ignore_capacity) ==
    IF k = 0 THEN {<<>>}
    ELSE LET box == {b \in (0..Min(b_eq[k], b_inv[k])) \X (0..b_eq[k]) :
                        b[1] + b[2] <= b_eq[k]}
         IN UNION {
              {q \in {Append(p, b) : b \in box} :
                  PrefixOK(allocation_df, q, b_eq, inventory_df, warehouses_df,
                           ignore_capacity)} :
              p \in LatticePoints(allocation_df, k - 1, b_eq, b_inv, inventory_df,
                                  warehouses_df, ignore_capacity)}

(* linprog(c, A_ub, b_ub, A_eq, b_eq, bounds, method='highs'): the set of  *)
(* results the solver may return                                           *)
linprog(allocation_df, inventory_df, warehouses_df, ignore_capacity) ==
    LET n_routes == Len(allocation_df)
        ud == unique_demands(allocation_df)
        b_eq == [i \in 1..n_routes |-> ud[DemandKey(allocation_df[i])]]
        b_inv == [i \in 1..n_routes |->
                     avail_val(inventory_df, allocation_df[i].Warehouse)]
        feasible == {x \in LatticePoints(allocation_df, n_routes, b_eq, b_inv,
                                         inventory_df, warehouses_df,
                                         ignore_capacity) :
                        LPFeasible(allocation_df, x, inventory_df,
                                   warehouses_df, ignore_capacity)}
        values == {LPObjective(allocation_df, x) : x \in feasible}
        fun == CHOOSE v \in values : \A u \in values : v <= u
    IN IF feasible = {}
       THEN {[success |-> FALSE, x |-> <<>>, fun |-> 0]}
       ELSE {[success |-> TRUE, x |-> x, fun |-> fun] :
                x \in {y \in feasible : LPObjective(allocation_df, y) = fun}}

(* result_df of a successful solve, rows with Allocated_Units <= 0.01 dropped *)
DecodeRow(r, xi) ==
    [Product |-> r.Product, Warehouse |-> r.Warehouse,
     Channel |-> r.Channel, State |-> r.State,
     Demand |-> r.Demand, Cost_Per_Unit |-> r.Cost_Per_Unit,
     Current_Available |-> r.Current_Available,
     Allocated_From_Inv |-> xi[1],
     Allocated_Shipped |-> xi[2],
     Allocated_Units |-> xi[1] + xi[2],
     Total_Cost |-> xi[2] * r.Cost_Per_Unit]

DecodeRows(allocation_df, x) ==
    SelectSeq([i \in 1..Len(allocation_df) |-> DecodeRow(allocation_df[i], x[i])],
              LAMBDA row : row.Allocated_Units > 0)

(* The set of (result_df, total_cost) pairs the call may return *)
solve_lp_with_inventory(allocation_df, inventory_df, warehouses_df, ignore_capacity) ==
    {IF res.success
     THEN [df |-> SomeDF(DecodeRows(allocation_df, res.x)), cost |-> SomeCost(res.fun)]
     ELSE [df |-> NoneDF, cost |-> SomeCost(0)] :
        res \in linprog(allocation_df, inventory_df, warehouses_df, ignore_capacity)}

(* One call of solve_lp_with_inventory on the arguments held in lp *)
SolveLP ==
    /\ ~lp.called
    /\ \E r \in solve_lp_with_inventory(lp.allocation_df, lp.inventory_df,
                                         lp.warehouses_df, lp.ignore_capacity) :
          lp' = [lp EXCEPT !.called = TRUE, !.result = r]
    /\ UNCHANGED <<warehouses, distribution_centers, demand_forecast,
                   customer_allocation_plan, warehouse_inventory,
                   warehouse_schedule, customer_selected_warehouses,
                   smart_results, customer_results, smart_total, call, db,
                   projection, v1, validation, warnings, auto_results>>

---------------------------------------------------------------------------
(* Period orchestrator: optimize_allocation_multi_week *)

Returned(weeks) == [status |-> "returned", weeks |-> weeks]
RaisedKeyError ==
    [status |-> "raised",
     weeks |-> [w \in Weeks |-> [df |-> NoneDF, cost |-> NoneCost]]]

(* The (result_df, total_cost) pairs one iteration of the week loop may *)
(* store in results[week]                                               *)
SmartWeek(week, whs, demand, shipping_costs, sched, inventory_df) ==
    LET inventory == calculate_available_inventory(week, sched, inventory_df, whs)
        allocation_df == BuildRoutes(demand, shipping_costs, inventory, week,
                                     FALSE, {})
    IN IF allocation_df = <<>>
       THEN {[df |-> NoneDF, cost |-> NoneCost]}
       ELSE solve_lp_with_inventory(allocation_df, inventory, whs, FALSE)

(* Variant: week 4 starts from the stock left after week 3's consumption *)
Deplete(inventory_df, r3) ==
    Map(inventory_df, LAMBDA i :
        [i EXCEPT !.quantity_on_hand =
            Max(0, @ - SumSeq(Map(SelectSeq(r3.df.rows,
                                    LAMBDA row : row.Warehouse = i.warehouse_name),
                                  LAMBDA row : row.Allocated_From_Inv)))])

optimize_allocation_multi_week_Carry(whs, dcs, demand, sched, inventory_df) ==
    LET distance_matrix == calculate_distance_matrix(whs, dcs)
        shipping_costs == calculate_shipping_costs(distance_matrix, tms_shipping_rate)
    IN IF shipping_costs.raised
       THEN {RaisedKeyError}
       ELSE UNION {
              {Returned([w \in Weeks |-> IF w = 3 THEN r3 ELSE r4]) :
                 r4 \in SmartWeek(4, whs, demand, shipping_costs.rows, sched,
                                  Deplete(inventory_df, r3))} :
              r3 \in SmartWeek(3, whs, demand, shipping_costs.rows, sched, inventory_df)}

optimize_allocation_multi_week(whs, dcs, demand, sched, inventory_df) ==
    LET distance_matrix == calculate_distance_matrix(whs, dcs)
        shipping_costs == calculate_shipping_costs(distance_matrix, tms_shipping_rate)
    IN IF shipping_costs.raised
       THEN {RaisedKeyError}
       ELSE {Returned([w \in Weeks |-> IF w = 3 THEN r3 ELSE r4]) :
                r3 \in SmartWeek(3, whs, demand, shipping_costs.rows, sched, inventory_df),
                r4 \in SmartWeek(4, whs, demand, shipping_costs.rows, sched, inventory_df)}

(* sum(cost for _, cost in results.values() if cost is not None) *)
SumNotNone(weeks) ==
    SumOver([w \in Weeks |-> IF weeks[w].cost.none THEN 0 ELSE weeks[w].cost.val],
            Weeks)

NoCall == [fn |-> "none", ended |-> "none"]
NoProjection == [source |-> "none", rows |-> <<>>]
Unset == [set |-> FALSE,
          weeks |-> [w \in Weeks |-> [df |-> NoneDF, cost |-> NoneCost]]]
NoValidation == [rendered |-> FALSE, rows |-> <<>>, all_valid |-> TRUE]
NoLP ==
    [called |-> FALSE, allocation_df |-> <<>>, inventory_df |-> <<>>,
     warehouses_df |-> <<>>, ignore_capacity |-> FALSE,
     result |-> [df |-> NoneDF, cost |-> NoneCost]]

(* Variant: the call writes the stock left after week 3 back to the      *)
(* session's inventory table                                              *)
RunSmartOptimization_ConsumesInventory ==
    /\ \E res \in optimize_allocation_multi_week(warehouses, distribution_centers,
                     demand_forecast, warehouse_schedule, warehouse_inventory) :
          IF res.status = "raised"
          THEN /\ call' = [fn |-> "optimize_allocation_multi_week", ended |-> "raised"]
               /\ UNCHANGED <<smart_results, smart_total, warehouse_inventory>>
          ELSE /\ call' = [fn |-> "optimize_allocation_multi_week", ended |-> "returned"]
               /\ smart_results' = [set |-> TRUE, weeks |-> res.weeks]
               /\ smart_total' = SomeCost(SumNotNone(res.weeks))
               /\ warehouse_inventory' = Deplete(warehouse_inventory, res.weeks[3])
    /\ UNCHANGED <<warehouses, distribution_centers, demand_forecast,
                   customer_allocation_plan,
                   warehouse_schedule, customer_selected_warehouses,
                   customer_results, db, projection, v1,
                   validation, warnings, lp, auto_results>>

(* "Run Smart Optimization" button *)
RunSmartOptimization ==
    /\ \E res \in optimize_allocation_multi_week(warehouses, distribution_centers,
                     demand_forecast, warehouse_schedule, warehouse_inventory) :
          IF res.status = "raised"
          THEN /\ call' = [fn |-> "optimize_allocation_multi_week", ended |-> "raised"]
               /\ UNCHANGED <<smart_results, smart_total>>
          ELSE /\ call' = [fn |-> "optimize_allocation_multi_week", ended |-> "returned"]
               /\ smart_results' = [set |-> TRUE, weeks |-> res.weeks]
               /\ smart_total' = SomeCost(SumNotNone(res.weeks))
    /\ UNCHANGED <<warehouses, distribution_centers, demand_forecast,
                   customer_allocation_plan, warehouse_inventory,
                   warehouse_schedule, customer_selected_warehouses,
                   customer_results, db, projection, v1,
                   validation, warnings, lp, auto_results>>

---------------------------------------------------------------------------
(* The first application (src/app.py): optimize_allocation, one period,  *)
(* no inventory                                                           *)

shipping_rate_per_100miles == 15

V1BuildRoutes(demand, shipping_costs) ==
    Concat(Map(demand, LAMBDA d :
        Map(SelectSeq(shipping_costs, LAMBDA c :
                c.DC_Channel = d.Channel /\ c.DC_State = d.State),
            LAMBDA cost :
                [Product |-> d.Product,
                 Warehouse |-> cost.Warehouse,
                 Channel |-> d.Channel,
                 State |-> d.State,
                 Demand |-> d.Demand_Units,
                 Cost_Per_Unit |-> cost.Cost_Per_Unit,
                 Distance_Miles |-> cost.Distance_Miles])))

(* 1. Meet demand for each channel-state-product combination *)
V1DemandConstraints(allocation_df, x) ==
    LET ud == unique_demands(allocation_df)
    IN \A key \in DOMAIN ud :
        SumOver(x, KeyMask(allocation_df, Len(x), key)) = ud[key]

(* 2. Warehouse capacity constraints, the bound being the Capacity of the *)
(*    first warehouse of that name                                         *)
V1CapacityConstraint(allocation_df, x, warehouses_df, wh_name) ==
    SumOver(x, WhMask(allocation_df, Len(x), wh_name))
        <= SelectSeq(warehouses_df, LAMBDA w : w.Name = wh_name)[1].Capacity

V1Feasible(allocation_df, x, warehouses_df) ==
    /\ \A i \in 1..Len(x) : x[i] >= 0
    /\ V1DemandConstraints(allocation_df, x)
    /\ \A j \in 1..Len(warehouses_df) :
          V1CapacityConstraint(allocation_df, x, warehouses_df, warehouses_df[j].Name)

V1Objective(allocation_df, x) ==
    SumOver([i \in 1..Len(x) |-> allocation_df[i].Cost_Per_Unit * x[i]], 1..Len(x))

RECURSIVE V1LatticePoints(_, _, _, _)
V1LatticePoints(allocation_df, k, b_eq, warehouses_df) ==
    IF k = 0 THEN {<<>>}
    ELSE UNION {
           {q \in {Append(p, b) : b \in 0..b_eq[k]} :
               /\ SumOver(q, KeyMask(allocation_df, k, DemandKey(allocation_df[k])))
                     <= b_eq[k]
               /\ V1CapacityConstraint(allocation_df, q, warehouses_df,
                                       allocation_df[k].Warehouse)} :
           p \in V1LatticePoints(allocation_df, k - 1, b_eq, warehouses_df)}

(* linprog(c, A_ub, b_ub, A_eq, b_eq, bounds, method='highs') of app.py *)
V1linprog(allocation_df, warehouses_df) ==
    LET n_vars == Len(allocation_df)
        ud == unique_demands(allocation_df)
        b_eq == [i \in 1..n_vars |-> ud[DemandKey(allocation_df[i])]]
        feasible == {x \in V1LatticePoints(allocation_df, n_vars, b_eq, warehouses_df) :
                        V1Feasible(allocation_df, x, warehouses_df)}
        values == {V1Objective(allocation_df, x) : x \in feasible}
        fun == CHOOSE v \in values : \A u \in values : v <= u
    IN IF feasible = {}
       THEN {[success |-> FALSE, x |-> <<>>, fun |-> 0]}
       ELSE {[success |-> TRUE, x |-> x, fun |-> fun] :
                x \in {y \in feasible : V1Objective(allocation_df, y) = fun}}

V1DecodeRows(allocation_df, x) ==
    SelectSeq([i \in 1..Len(allocation_df) |->
                  [Product |-> allocation_df[i].Product,
                   Warehouse |-> allocation_df[i].Warehouse,
                   Channel |-> allocation_df[i].Channel,
                   State |-> allocation_df[i].State,
                   Demand |-> allocation_df[i].Demand,
                   Cost_Per_Unit |-> allocation_df[i].Cost_Per_Unit,
                   Allocated_Units |-> x[i],
                   Total_Cost |-> x[i] * allocation_df[i].Cost_Per_Unit]],
              LAMBDA row : row.Allocated_Units > 0)

(* The outcomes of optimize_allocation(): the call raises, or returns     *)
(* (None, None), or returns (allocation_df, total_cost)                    *)
optimize_allocation(whs, dcs, demand) ==
    LET distance_matrix == calculate_distance_matrix(whs, dcs)
        shipping_costs == calculate_shipping_costs(distance_matrix,
                                                   shipping_rate_per_100miles)
        allocation_df == V1BuildRoutes(demand, shipping_costs.rows)
    IN IF shipping_costs.raised
       THEN {[status |-> "raised", df |-> NoneDF, cost |-> NoneCost]}
       ELSE IF allocation_df = <<>>
       THEN {[status |-> "returned", df |-> NoneDF, cost |-> NoneCost]}
       ELSE {IF res.success
             THEN [status |-> "returned",
                   df |-> SomeDF(V1DecodeRows(allocation_df, res.x)),
                   cost |-> SomeCost(res.fun)]
             ELSE [status |-> "returned", df |-> NoneDF, cost |-> NoneCost] :
                res \in V1linprog(allocation_df, whs)}

(* "Run Optimization" button of app.py *)
RunOptimization ==
    /\ \E res \in optimize_allocation(v1.warehouses, v1.distribution_centers,
                                       v1.demand_forecast) :
          /\ call' = [fn |-> "optimize_allocation", ended |-> res.status]
          /\ v1' = IF res.status = "returned" /\ ~res.df.none
                   THEN [v1 EXCEPT !.smart_allocation = res.df,
                                   !.smart_cost = res.cost]
                   ELSE v1
    /\ UNCHANGED <<warehouses, distribution_centers, demand_forecast,
                   customer_allocation_plan, warehouse_inventory,
                   warehouse_schedule, customer_selected_warehouses,
                   smart_results, customer_results, smart_total, db, projection,
                   validation, warnings, lp, auto_results>>

---------------------------------------------------------------------------
(* Plan costing heuristic: calculate_customer_cost_manual *)

(* The plan rows whose (warehouse, channel, state) has a shipping cost,  *)
(* with the cost of the first matching cost row                           *)
ResolvePlan(customer_plan, shipping_costs, week) ==
    Concat(Map(customer_plan, LAMBDA plan :
        LET cost_info == SelectSeq(shipping_costs, LAMBDA c :
                /\ c.Warehouse = plan.Warehouse
                /\ c.DC_Channel = plan.Channel
                /\ c.DC_State = plan.State)
            allocated_units == IF week = 3 THEN plan.Allocated_Units_Week3
                                           ELSE plan.Allocated_Units_Week4
        IN IF cost_info # <<>>
           THEN <<[Product |-> plan.Product,
                   Warehouse |-> plan.Warehouse,
                   Channel |-> plan.Channel,
                   State |-> plan.State,
                   Allocated_Units |-> allocated_units,
                   Cost_Per_Unit |-> cost_info[1].Cost_Per_Unit,
                   Distance_Miles |-> cost_info[1].Distance_Miles,
                   Allocated_Shipped |-> allocated_units,
                   Allocated_From_Inv |-> 0]>>
           ELSE <<>>))

(* Variant: the pool is not decremented by what a row has taken *)
RECURSIVE GreedyCover_NoDecrement(_, _, _)
GreedyCover_NoDecrement(customer_df, wh_allocs, wh_avail) ==
    IF wh_allocs = <<>> THEN customer_df
    ELSE LET idx == Head(wh_allocs)
             needed == customer_df[idx].Allocated_Units
             can_cover == Min(needed, wh_avail)
             covered == [customer_df EXCEPT
                            ![idx].Allocated_From_Inv = can_cover,
                            ![idx].Allocated_Shipped = needed - can_cover]
         IN GreedyCover_NoDecrement(covered, Tail(wh_allocs), wh_avail)

(* Variant: a row takes the whole pool, whatever it needs *)
RECURSIVE GreedyCover_NoMin(_, _, _)
GreedyCover_NoMin(customer_df, wh_allocs, wh_avail) ==
    IF wh_allocs = <<>> THEN customer_df
    ELSE LET idx == Head(wh_allocs)
             needed == customer_df[idx].Allocated_Units
             can_cover == wh_avail
         IN [customer_df EXCEPT
                ![idx].Allocated_From_Inv = can_cover,
                ![idx].Allocated_Shipped = needed - can_cover]

(* Variant: the shipped part is left at the planned quantity *)
RECURSIVE GreedyCover_KeepShipped(_, _, _)
GreedyCover_KeepShipped(customer_df, wh_allocs, wh_avail) ==
    IF wh_allocs = <<>> THEN customer_df
    ELSE LET idx == Head(wh_allocs)
             needed == customer_df[idx].Allocated_Units
             can_cover == Min(needed, wh_avail)
             covered == [customer_df EXCEPT ![idx].Allocated_From_Inv = can_cover]
         IN IF wh_avail - can_cover <= 0
            THEN covered
            ELSE GreedyCover_KeepShipped(covered, Tail(wh_allocs),
                                         wh_avail - can_cover)

(* The loop over one warehouse's rows, wh_allocs being their indices in   *)
(* the order of the sort                                                   *)
RECURSIVE GreedyCover(_, _, _)
GreedyCover(customer_df, wh_allocs, wh_avail) ==
    IF wh_allocs = <<>> THEN customer_df
    ELSE LET idx == Head(wh_allocs)
             needed == customer_df[idx].Allocated_Units
             can_cover == Min(needed, wh_avail)
             covered == [customer_df EXCEPT
                            ![idx].Allocated_From_Inv = can_cover,
                            ![idx].Allocated_Shipped = needed - can_cover]
         IN IF wh_avail - can_cover <= 0
            THEN covered
            ELSE GreedyCover(covered, Tail(wh_allocs), wh_avail - can_cover)

(* Variant: the rows sorted by ascending cost *)
SortedByCostAsc(customer_df, wh) ==
    LET idxs == {i \in 1..Len(customer_df) : customer_df[i].Warehouse = wh}
        n == Cardinality(idxs)
    IN {o \in [1..n -> idxs] :
          /\ \A i, j \in 1..n : i # j => o[i] # o[j]
          /\ \A i \in 1..(n - 1) :
                customer_df[o[i]].Cost_Per_Unit <= customer_df[o[i + 1]].Cost_Per_Unit}

(* sort_values('Cost_Per_Unit', ascending=False): the orders of the       *)
(* warehouse's rows the sort may produce; the default sort is not stable, *)
(* so rows of equal cost come in any order                                 *)
SortedByCostDesc(customer_df, wh) ==
    LET idxs == {i \in 1..Len(customer_df) : customer_df[i].Warehouse = wh}
        n == Cardinality(idxs)
    IN {o \in [1..n -> idxs] :
          /\ \A i, j \in 1..n : i # j => o[i] # o[j]
          /\ \A i \in 1..(n - 1) :
                customer_df[o[i]].Cost_Per_Unit >= customer_df[o[i + 1]].Cost_Per_Unit}

(* The loop over the warehouses of the plan *)
RECURSIVE DeductInventory(_, _, _)
DeductInventory(customer_df, whs_left, inventory) ==
    IF whs_left = <<>> THEN {customer_df}
    ELSE LET wh == Head(whs_left)
             wh_avail == FirstAvailable(inventory, wh)
         IN IF wh_avail > 0
            THEN UNION {DeductInventory(GreedyCover(customer_df, o, wh_avail),
                                        Tail(whs_left), inventory) :
                           o \in SortedByCostDesc(customer_df, wh)}
            ELSE DeductInventory(customer_df, Tail(whs_left), inventory)

(* Variant: the cost of all planned units (Total_Cost_Raw) *)
WithTotalCost_Raw(customer_df) ==
    Map(customer_df, LAMBDA r :
        [Product |-> r.Product, Warehouse |-> r.Warehouse,
         Channel |-> r.Channel, State |-> r.State,
         Allocated_Units |-> r.Allocated_Units,
         Cost_Per_Unit |-> r.Cost_Per_Unit,
         Allocated_Shipped |-> r.Allocated_Shipped,
         Allocated_From_Inv |-> r.Allocated_From_Inv,
         Total_Cost |-> r.Allocated_Units * r.Cost_Per_Unit])

(* Total_Cost = Allocated_Shipped * Cost_Per_Unit *)
WithTotalCost(customer_df) ==
    Map(customer_df, LAMBDA r :
        [Product |-> r.Product, Warehouse |-> r.Warehouse,
         Channel |-> r.Channel, State |-> r.State,
         Allocated_Units |-> r.Allocated_Units,
         Cost_Per_Unit |-> r.Cost_Per_Unit,
         Allocated_Shipped |-> r.Allocated_Shipped,
         Allocated_From_Inv |-> r.Allocated_From_Inv,
         Total_Cost |-> r.Allocated_Shipped * r.Cost_Per_Unit])

ManualWeek(week, customer_plan, shipping_costs, whs, sched, inventory_df) ==
    LET inventory == calculate_available_inventory(week, sched, inventory_df, whs)
        customer_df == ResolvePlan(customer_plan, shipping_costs, week)
    IN IF customer_df # <<>>
       THEN {[df |-> SomeDF(WithTotalCost(d)),
              cost |-> SomeCost(SumSeq(Map(WithTotalCost(d),
                                           LAMBDA r : r.Total_Cost)))] :
                d \in DeductInventory(customer_df,
                         UniqueSeq(Map(customer_df, LAMBDA r : r.Warehouse)),
                         inventory)}
       ELSE {[df |-> SomeDF(<<>>), cost |-> SomeCost(0)]}

(* The st.warning messages of one week's pass over the plan: one for    *)
(* each plan row whose warehouse is not a customer default warehouse     *)
ManualWarnings(customer_plan, customer_default_warehouses) ==
    Concat(Map(customer_plan, LAMBDA plan :
        IF plan.Warehouse \notin customer_default_warehouses
        THEN <<[Warehouse |-> plan.Warehouse, Channel |-> plan.Channel,
                State |-> plan.State]>>
        ELSE <<>>))

calculate_customer_cost_manual(customer_plan, whs, dcs, sched, inventory_df) ==
    LET distance_matrix == calculate_distance_matrix(whs, dcs)
        shipping_costs == calculate_shipping_costs(distance_matrix,
                                                   market_shipping_rate)
    IN IF shipping_costs.raised
       THEN {RaisedKeyError}
       ELSE {Returned([w \in Weeks |-> IF w = 3 THEN r3 ELSE r4]) :
                r3 \in ManualWeek(3, customer_plan, shipping_costs.rows, whs,
                                  sched, inventory_df),
                r4 \in ManualWeek(4, customer_plan, shipping_costs.rows, whs,
                                  sched, inventory_df)}

(* calculate_customer_cost_multi_week() takes no argument and reads no    *)
(* mode: it returns calculate_customer_cost_manual()                      *)
calculate_customer_cost_multi_week(customer_plan, whs, dcs, sched, inventory_df) ==
    calculate_customer_cost_manual(customer_plan, whs, dcs, sched, inventory_df)

(* "Calculate Customer Cost" button: calculate_customer_cost_multi_week  *)
(* always takes the manual plan                                           *)
CalculateCustomerCost ==
    /\ \E res \in calculate_customer_cost_multi_week(customer_allocation_plan,
                     warehouses, distribution_centers, warehouse_schedule,
                     warehouse_inventory) :
          IF res.status = "raised"
          THEN /\ call' = [fn |-> "calculate_customer_cost_manual", ended |-> "raised"]
               /\ UNCHANGED <<customer_results, warnings>>
          ELSE /\ call' = [fn |-> "calculate_customer_cost_manual", ended |-> "returned"]
               /\ customer_results' = [set |-> TRUE, weeks |-> res.weeks]
               /\ warnings' = ManualWarnings(customer_allocation_plan,
                                             customer_selected_warehouses)
                              \o ManualWarnings(customer_allocation_plan,
                                                customer_selected_warehouses)
    /\ UNCHANGED <<warehouses, distribution_centers, demand_forecast,
                   customer_allocation_plan, warehouse_inventory,
                   warehouse_schedule, customer_selected_warehouses,
                   smart_results, smart_total, db, projection, v1,
                   validation, lp, auto_results>>

---------------------------------------------------------------------------
(* Customer plan optimised over the selected warehouses:                  *)
(* calculate_customer_cost_auto                                            *)

AutoWeek(week, whs, demand, shipping_costs, sched, inventory_df, target) ==
    LET inventory == calculate_available_inventory(week, sched, inventory_df, whs)
        allocation_df == BuildRoutes(demand, shipping_costs, inventory, week,
                                     TRUE, target)
    IN IF allocation_df = <<>>
       THEN {[df |-> NoneDF, cost |-> SomeCost(0)]}
       ELSE {IF r.df.none THEN [df |-> NoneDF, cost |-> SomeCost(0)] ELSE r :
                r \in solve_lp_with_inventory(allocation_df, inventory, whs, TRUE)}

calculate_customer_cost_auto(whs, dcs, demand, sched, inventory_df, target_warehouses) ==
    LET distance_matrix == calculate_distance_matrix(whs, dcs)
        shipping_costs == calculate_shipping_costs(distance_matrix,
                                                   market_shipping_rate)
    IN IF shipping_costs.raised
       THEN {RaisedKeyError}
       ELSE IF target_warehouses = {}
       THEN {Returned([w \in Weeks |-> [df |-> NoneDF, cost |-> SomeCost(0)]])}
       ELSE {Returned([w \in Weeks |-> IF w = 3 THEN r3 ELSE r4]) :
                r3 \in AutoWeek(3, whs, demand, shipping_costs.rows, sched,
                                inventory_df, target_warehouses),
                r4 \in AutoWeek(4, whs, demand, shipping_costs.rows, sched,
                                inventory_df, target_warehouses)}

(* A call of calculate_customer_cost_auto() with no argument: the target  *)
(* warehouses are the session's customer_selected_warehouses               *)
CalculateCustomerCostAuto ==
    /\ \E res \in calculate_customer_cost_auto(warehouses, distribution_centers,
                     demand_forecast, warehouse_schedule, warehouse_inventory,
                     customer_selected_warehouses) :
          IF res.status = "raised"
          THEN /\ call' = [fn |-> "calculate_customer_cost_auto", ended |-> "raised"]
               /\ UNCHANGED auto_results
          ELSE /\ call' = [fn |-> "calculate_customer_cost_auto", ended |-> "returned"]
               /\ auto_results' = [set |-> TRUE, weeks |-> res.weeks]
    /\ UNCHANGED <<warehouses, distribution_centers, demand_forecast,
                   customer_allocation_plan, warehouse_inventory,
                   warehouse_schedule, customer_selected_warehouses,
                   smart_results, customer_results, smart_total, db,
                   projection, v1, validation, warnings, lp>>

---------------------------------------------------------------------------
(* Validation of the plan against the forecast (Customer Plan tab) *)

(* One row of validation_data, for demand row d and one week *)
ValidationRow(d, customer_plan, week) ==
    LET dc_plan == SelectSeq(customer_plan, LAMBDA p :
                       p.Channel = d.Channel /\ p.State = d.State)
        req == IF week = 3 THEN d.Demand_Week3 ELSE d.Demand_Week4
        alloc == SumSeq(Map(dc_plan, LAMBDA p :
                     IF week = 3 THEN p.Allocated_Units_Week3
                                 ELSE p.Allocated_Units_Week4))
    IN [DC |-> <<d.Channel, d.State>>,
        Week |-> week,
        Demand |-> req,
        Allocated |-> alloc,
        Status |-> IF alloc < req THEN "Low"
                   ELSE IF alloc > req THEN "High" ELSE "OK"]

validation_data(demand, customer_plan) ==
    Concat(Map(demand, LAMBDA d :
        <<ValidationRow(d, customer_plan, 3), ValidationRow(d, customer_plan, 4)>>))

(* Variant: a surplus makes the plan invalid as well *)
all_valid_StrictMatch(rows) ==
    \A i \in 1..Len(rows) : rows[i].Status = "OK"

(* all_valid is cleared only where the allocation is below the demand *)
all_valid(rows) ==
    \A i \in 1..Len(rows) : rows[i].Status # "Low"

(* The validation section as rendered with the Customer Plan tab *)
RenderPlanValidation ==
    /\ demand_forecast # <<>>
    /\ validation' =
          [rendered |-> TRUE,
           rows |-> validation_data(demand_forecast, customer_allocation_plan),
           all_valid |-> all_valid(validation_data(demand_forecast,
                                                   customer_allocation_plan))]
    /\ UNCHANGED <<warehouses, distribution_centers, demand_forecast,
                   customer_allocation_plan, warehouse_inventory,
                   warehouse_schedule, customer_selected_warehouses,
                   smart_results, customer_results, smart_total, call, db,
                   projection, v1, warnings, lp, auto_results>>

---------------------------------------------------------------------------
(* Projections of available inventory *)

(* calculate_available_inventory(week) as the optimiser and the heuristic *)
(* call it, for week 3 and week 4                                          *)
ProjectForWeek ==
    /\ \E week \in Weeks :
          projection' =
              [source |-> "app_v2",
               rows |-> Map(calculate_available_inventory(week, warehouse_schedule,
                                warehouse_inventory, warehouses),
                            LAMBDA r : [Name |-> r.Name, SKU |-> r.SKU,
                                        Week |-> week, Available |-> r.Available])]
    /\ UNCHANGED <<warehouses, distribution_centers, demand_forecast,
                   customer_allocation_plan, warehouse_inventory,
                   warehouse_schedule, customer_selected_warehouses,
                   smart_results, customer_results, smart_total, call, db, v1,
                   validation, warnings, lp, auto_results>>

(* available_data: one entry per warehouse, SKU and week *)
available_data(db_schedule, whs) ==
    Concat(Map(whs, LAMBDA wh :
        Concat(Map(SkuList, LAMBDA sku :
            <<[Name |-> wh.Name, SKU |-> sku, Week |-> 3,
               Available |-> db_calculate_available_inventory(
                   db_schedule, whs, wh.Name, sku, 3)],
              [Name |-> wh.Name, SKU |-> sku, Week |-> 4,
               Available |-> db_calculate_available_inventory(
                   db_schedule, whs, wh.Name, sku, 4)]>>))))

(* The "Available Inventory Projection" table of the Inventory tab *)
RenderInventoryProjection ==
    /\ warehouse_schedule.loaded /\ warehouse_schedule.rows # <<>>
    /\ projection' =
          [source |-> "db",
           rows |-> available_data(db.warehouse_schedule, warehouses)]
    /\ UNCHANGED <<warehouses, distribution_centers, demand_forecast,
                   customer_allocation_plan, warehouse_inventory,
                   warehouse_schedule, customer_selected_warehouses,
                   smart_results, customer_results, smart_total, call, db, v1,
                   validation, warnings, lp, auto_results>>

---------------------------------------------------------------------------
(* Input snapshots *)

WarehouseNames == <<"W1", "W2">>
CapValues == {1, MaxCap}

WarehouseRow(n, c) == [Name |-> n, Address |-> n, Capacity |-> c]

WarehouseTables ==
    {<<>>}
    \cup {<<WarehouseRow("W1", c)>> : c \in CapValues}
    \cup {<<WarehouseRow("W1", c), WarehouseRow("W2", MaxCap)>> : c \in CapValues}

DC_CA == [Channel |-> "Amazon", State |-> "CA", Address |-> "San Francisco, CA"]
DC_PA == [Channel |-> "Amazon", State |-> "PA", Address |-> "Philadelphia, PA"]
DC_CA2 == [Channel |-> "Amazon", State |-> "CA", Address |-> "unknown"]

DCTables == {<<>>, <<DC_CA>>, <<DC_CA, DC_PA>>, <<DC_CA2, DC_PA>>}

DemandValues == {1, MaxDemand}
OnHandValues == {0, MaxOnHand}
FlowValues == {0, MaxFlow}

ForecastRow(product, state, d3, d4) ==
    [Product |-> product, Channel |-> "Amazon", State |-> state,
     Demand_Week3 |-> d3, Demand_Week4 |-> d4]

DemandRows ==
    [Product : {DefaultSKU}, Channel : {"Amazon"}, State : {"CA", "PA"},
     Demand_Week3 : DemandValues, Demand_Week4 : DemandValues]

DemandTables ==
    {<<>>}
    \cup {<<r>> : r \in DemandRows}
    \cup {<<r1, r2>> : r1 \in {r \in DemandRows : r.State = "CA"},
                       r2 \in {r \in DemandRows :
                                  /\ r.Demand_Week3 = r.Demand_Week4
                                  /\ r.State = "CA" => r.Demand_Week3 = MaxDemand}}

ScheduleRow(wh, sku, i3, i4, o1, o2) ==
    [warehouse_name |-> wh, sku_code |-> sku,
     incoming_week3 |-> i3, incoming_week4 |-> i4,
     outgoing_week1 |-> o1, outgoing_week2 |-> o2]
InventoryRow(wh, sku, q) ==
    [warehouse_name |-> wh, sku_code |-> sku, quantity_on_hand |-> q]

V1DemandRow(state, units) ==
    [Product |-> "Product A", Channel |-> "Amazon", State |-> state,
     Demand_Units |-> units]

V1DemandTables ==
    {<<>>}
    \cup {<<V1DemandRow(st, d)>> : st \in {"CA", "PA"}, d \in DemandValues}
    \cup {<<V1DemandRow("CA", d1), V1DemandRow(st, d2)>> :
             st \in {"CA", "PA"}, d1 \in DemandValues, d2 \in DemandValues}

V1Session(whs, dcs, demand) ==
    [warehouses |-> whs, distribution_centers |-> dcs, demand_forecast |-> demand,
     smart_allocation |-> NoneDF, smart_cost |-> NoneCost]

NotLoaded == [loaded |-> FALSE, rows |-> <<>>]
Loaded(rows) == [loaded |-> TRUE, rows |-> rows]

(* The session right after start-up: tables loaded from the database,   *)
(* the schedule loaded by the first render of the Configuration page,    *)
(* no results yet                                                         *)
SessionLoaded ==
    /\ warehouse_inventory = db.warehouse_inventory
    /\ warehouse_schedule =
          Loaded(get_warehouse_schedule(db.warehouse_schedule, warehouses))
    /\ customer_selected_warehouses = {warehouses[i].Name : i \in 1..Len(warehouses)}
    /\ smart_results = Unset
    /\ customer_results = Unset
    /\ smart_total = NoneCost
    /\ call = NoCall
    /\ projection = NoProjection
    /\ validation = NoValidation
    /\ warnings = <<>>
    /\ lp = NoLP
    /\ auto_results = Unset
    /\ v1 = V1Session(<<WarehouseRow("W1", 1), WarehouseRow("W2", MaxCap)>>,
                      <<DC_CA>>, <<V1DemandRow("CA", MaxDemand)>>)

InitSmart ==
    /\ warehouses \in WarehouseTables
    /\ distribution_centers \in DCTables
    /\ demand_forecast \in DemandTables
    /\ customer_allocation_plan = <<>>
    /\ \/ db = [warehouse_schedule |-> <<ScheduleRow("W0", DefaultSKU, 0, 0, 0, 0)>>,
                warehouse_inventory |-> <<InventoryRow("W1", DefaultSKU, MaxOnHand)>>]
       \/ \E q \in OnHandValues, i4 \in FlowValues :
             db = [warehouse_schedule |->
                      <<ScheduleRow("W1", DefaultSKU, 0, i4, 0, 0),
                        ScheduleRow("W2", DefaultSKU, 0, 0, 0, 0)>>,
                   warehouse_inventory |->
                      <<InventoryRow("W1", DefaultSKU, q),
                        InventoryRow("W2", DefaultSKU, 1)>>]
    /\ SessionLoaded

NextSmart == RunSmartOptimization

SpecSmart == InitSmart /\ [][NextSmart]_vars

(* Both applications' optimisers *)
InitV1 ==
    /\ warehouses = <<WarehouseRow("W1", MaxCap)>>
    /\ distribution_centers = <<DC_CA>>
    /\ demand_forecast = <<>>
    /\ customer_allocation_plan = <<>>
    /\ db = [warehouse_schedule |-> <<ScheduleRow("W1", DefaultSKU, 0, 0, 0, 0)>>,
             warehouse_inventory |-> <<InventoryRow("W1", DefaultSKU, 0)>>]
    /\ warehouse_inventory = db.warehouse_inventory
    /\ warehouse_schedule =
          Loaded(get_warehouse_schedule(db.warehouse_schedule, warehouses))
    /\ customer_selected_warehouses = {"W1"}
    /\ smart_results = Unset
    /\ customer_results = Unset
    /\ smart_total = NoneCost
    /\ call = NoCall
    /\ projection = NoProjection
    /\ validation = NoValidation
    /\ warnings = <<>>
    /\ lp = NoLP
    /\ auto_results = Unset
    /\ \E whs \in WarehouseTables, dcs \in DCTables, demand \in V1DemandTables :
          v1 = V1Session(whs, dcs, demand)

InitEngines == InitSmart \/ InitV1

NextEngines == RunSmartOptimization \/ RunOptimization

SpecEngines == InitEngines /\ [][NextEngines]_vars

PlanWarehouses == {"W1", "W2"}

EditedPlanRow(product, wh, state, u3, u4) ==
    [Product |-> product, Warehouse |-> wh, Channel |-> "Amazon", State |-> state,
     Allocated_Units_Week3 |-> u3, Allocated_Units_Week4 |-> u4]

PlanRows ==
    [Product : {DefaultSKU}, Warehouse : PlanWarehouses, Channel : {"Amazon"},
     State : {"CA", "PA"},
     Allocated_Units_Week3 : DemandValues, Allocated_Units_Week4 : DemandValues]

PlanTables ==
    {<<>>}
    \cup {<<r>> : r \in PlanRows}
    \cup {<<r1, r2>> : r1 \in PlanRows, r2 \in PlanRows}

InitManual ==
    /\ warehouses \in {<<>>, <<WarehouseRow("W1", MaxCap)>>,
                       <<WarehouseRow("W1", MaxCap), WarehouseRow("W2", MaxCap)>>}
    /\ distribution_centers \in DCTables
    /\ demand_forecast = <<>>
    /\ customer_allocation_plan \in PlanTables
    /\ \/ db = [warehouse_schedule |-> <<ScheduleRow("W0", DefaultSKU, 0, 0, 0, 0)>>,
                warehouse_inventory |-> <<InventoryRow("W1", DefaultSKU, MaxOnHand)>>]
       \/ \E q \in OnHandValues, i4 \in FlowValues, o1 \in FlowValues :
             db = [warehouse_schedule |->
                      <<ScheduleRow("W1", DefaultSKU, 0, i4, o1, 0),
                        ScheduleRow("W2", DefaultSKU, 0, 0, 0, 0)>>,
                   warehouse_inventory |->
                      <<InventoryRow("W1", DefaultSKU, q),
                        InventoryRow("W2", DefaultSKU, 1)>>]
    /\ SessionLoaded

NextManual == CalculateCustomerCost

SpecManual == InitManual /\ [][NextManual]_vars

InitInv ==
    /\ warehouses = <<WarehouseRow("W1", MaxCap), WarehouseRow("W2", MaxCap)>>
    /\ distribution_centers = <<DC_CA, DC_PA>>
    /\ demand_forecast = <<>>
    /\ customer_allocation_plan = <<>>
    /\ \/ db = [warehouse_schedule |-> <<ScheduleRow("W0", DefaultSKU, 0, 0, 0, 0)>>,
                warehouse_inventory |-> <<InventoryRow("W1", DefaultSKU, MaxOnHand)>>]
       \/ \E q1 \in OnHandValues, q2 \in OnHandValues,
             i3 \in FlowValues, i4 \in FlowValues,
             o1 \in FlowValues, o2 \in FlowValues, j3 \in FlowValues :
             db = [warehouse_schedule |->
                      <<ScheduleRow("W1", DefaultSKU, i3, i4, o1, o2),
                        ScheduleRow("W2", DefaultSKU, j3, 0, 0, 0)>>,
                   warehouse_inventory |->
                      <<InventoryRow("W1", DefaultSKU, q1),
                        InventoryRow("W2", DefaultSKU, q2)>>]
    /\ SessionLoaded

NextInv == ProjectForWeek \/ RenderInventoryProjection

SpecInv == InitInv /\ [][NextInv]_vars

(* The customer plan optimised over the selected warehouses *)
(* after any use of the warehouse multiselect of the Customer Plan tab   *)
InitAuto ==
    /\ warehouses \in WarehouseTables
    /\ distribution_centers \in {<<>>, <<DC_CA>>, <<DC_CA, DC_PA>>}
    /\ demand_forecast \in DemandTables
    /\ customer_allocation_plan = <<>>
    /\ \/ db = [warehouse_schedule |-> <<ScheduleRow("W0", DefaultSKU, 0, 0, 0, 0)>>,
                warehouse_inventory |-> <<InventoryRow("W1", DefaultSKU, MaxOnHand)>>]
       \/ \E q \in OnHandValues :
             db = [warehouse_schedule |->
                      <<ScheduleRow("W1", DefaultSKU, 0, 0, 0, 0),
                        ScheduleRow("W2", DefaultSKU, 0, 0, 0, 0)>>,
                   warehouse_inventory |->
                      <<InventoryRow("W1", DefaultSKU, q),
                        InventoryRow("W2", DefaultSKU, 1)>>]
    /\ warehouse_inventory = db.warehouse_inventory
    /\ warehouse_schedule =
          Loaded(get_warehouse_schedule(db.warehouse_schedule, warehouses))
    /\ customer_selected_warehouses \in
          SUBSET {warehouses[i].Name : i \in 1..Len(warehouses)}
    /\ smart_results = Unset
    /\ customer_results = Unset
    /\ smart_total = NoneCost
    /\ call = NoCall
    /\ projection = NoProjection
    /\ validation = NoValidation
    /\ warnings = <<>>
    /\ lp = NoLP
    /\ auto_results = Unset
    /\ v1 = V1Session(<<WarehouseRow("W1", 1), WarehouseRow("W2", MaxCap)>>,
                      <<DC_CA>>, <<V1DemandRow("CA", MaxDemand)>>)

NextAuto == CalculateCustomerCostAuto

SpecAuto == InitAuto /\ [][NextAuto]_vars

(* Calls of solve_lp_with_inventory: the route table is the join of a    *)
(* forecast with a shipping-cost table, as its callers build it           *)
LPDistanceRow(wh, state, miles) ==
    [Warehouse |-> wh, DC_Channel |-> "Amazon", DC_State |-> state,
     DC_Address |-> state, Distance_Miles |-> miles]

LPDistanceTables ==
    {<<LPDistanceRow("W1", "CA", m)>> : m \in {100, 200}}
    \cup {<<LPDistanceRow("W1", "CA", m1), LPDistanceRow("W1", "PA", m2)>> :
             m1 \in {100, 200}, m2 \in {100, 200}}
    \cup {<<LPDistanceRow("W1", "CA", m1), LPDistanceRow("W2", "CA", m2)>> :
             m1 \in {100, 200}, m2 \in {100, 200}}
    \cup {<<LPDistanceRow("W1", "CA", m1), LPDistanceRow("W1", "PA", 200),
            LPDistanceRow("W2", "CA", m2), LPDistanceRow("W2", "PA", 100)>> :
             m1 \in {100, 200}, m2 \in {100, 200}}

LPForecastTables ==
    {<<ForecastRow(DefaultSKU, "CA", d, d)>> : d \in DemandValues}
    \cup {<<ForecastRow(DefaultSKU, "CA", d1, d1), ForecastRow(DefaultSKU, st, d2, d2)>> :
             d1 \in DemandValues, d2 \in DemandValues, st \in {"CA", "PA"}}

LPInventory(a1, a2) ==
    <<[Name |-> "W1", SKU |-> DefaultSKU, Available |-> a1],
      [Name |-> "W2", SKU |-> DefaultSKU, Available |-> a2]>>

LPCall(demand, distance_matrix, rate, inventory, whs, ignore_capacity) ==
    [called |-> FALSE,
     allocation_df |-> BuildRoutes(demand,
                          calculate_shipping_costs(distance_matrix, rate).rows,
                          inventory, 3, FALSE, {}),
     inventory_df |-> inventory,
     warehouses_df |-> whs,
     ignore_capacity |-> ignore_capacity,
     result |-> [df |-> NoneDF, cost |-> NoneCost]]

(* One warehouse of capacity 1000 with 200 units available, one demand    *)
(* point asking for 500 units, 0.10 per shipped unit (10 cents)           *)
Scenario_OneRoute ==
    LPCall(<<ForecastRow(DefaultSKU, "CA", 500, 500)>>,
           <<LPDistanceRow("W1", "CA", 100)>>, 10,
           <<[Name |-> "W1", SKU |-> DefaultSKU, Available |-> 200]>>,
           <<WarehouseRow("W1", 1000)>>, FALSE)

LPCalls ==
    {Scenario_OneRoute}
    \cup {LPCall(demand, distance_matrix, tms_shipping_rate, LPInventory(a1, a2),
                 <<WarehouseRow("W1", c), WarehouseRow("W2", MaxCap)>>, ic) :
             demand \in LPForecastTables, distance_matrix \in LPDistanceTables,
             a1 \in OnHandValues, a2 \in {0, 1}, c \in CapValues,
             ic \in BOOLEAN}

InitLP ==
    /\ warehouses = <<WarehouseRow("W1", MaxCap), WarehouseRow("W2", MaxCap)>>
    /\ distribution_centers = <<DC_CA, DC_PA>>
    /\ demand_forecast = <<>>
    /\ customer_allocation_plan = <<>>
    /\ db = [warehouse_schedule |->
                <<ScheduleRow("W1", DefaultSKU, 0, 0, 0, 0),
                  ScheduleRow("W2", DefaultSKU, 0, 0, 0, 0)>>,
             warehouse_inventory |->
                <<InventoryRow("W1", DefaultSKU, 0),
                  InventoryRow("W2", DefaultSKU, 0)>>]
    /\ warehouse_inventory = db.warehouse_inventory
    /\ warehouse_schedule =
          Loaded(get_warehouse_schedule(db.warehouse_schedule, warehouses))
    /\ customer_selected_warehouses = {"W1", "W2"}
    /\ smart_results = Unset
    /\ customer_results = Unset
    /\ smart_total = NoneCost
    /\ call = NoCall
    /\ projection = NoProjection
    /\ validation = NoValidation
    /\ warnings = <<>>
    /\ auto_results = Unset
    /\ v1 = V1Session(<<WarehouseRow("W1", 1), WarehouseRow("W2", MaxCap)>>,
                      <<DC_CA>>, <<V1DemandRow("CA", MaxDemand)>>)
    /\ lp \in LPCalls

NextLP == SolveLP

SpecLP == InitLP /\ [][NextLP]_vars

(* The three engines called in any order on one session *)
InitCalls ==
    /\ warehouses \in
          {<<WarehouseRow("W1", c), WarehouseRow("W2", MaxCap)>> : c \in CapValues}
    /\ distribution_centers \in {<<>>, <<DC_CA, DC_PA>>}
    /\ demand_forecast \in
          {<<ForecastRow(DefaultSKU, "CA", d, d)>> : d \in DemandValues}
          \cup {<<ForecastRow(DefaultSKU, "CA", MaxDemand, MaxDemand),
                  ForecastRow(DefaultSKU, "PA", 1, 1)>>}
    /\ customer_allocation_plan \in
          {<<EditedPlanRow(DefaultSKU, "W1", "CA", u, u)>> : u \in DemandValues}
          \cup {<<EditedPlanRow(DefaultSKU, "W1", "CA", MaxDemand, MaxDemand),
                  EditedPlanRow(DefaultSKU, wh, "PA", 1, 1)>> : wh \in {"W1", "W2"}}
    /\ \E q \in OnHandValues, i4 \in FlowValues :
          db = [warehouse_schedule |->
                   <<ScheduleRow("W1", DefaultSKU, 0, i4, 0, 0),
                     ScheduleRow("W2", DefaultSKU, 0, 0, 0, 0)>>,
                warehouse_inventory |->
                   <<InventoryRow("W1", DefaultSKU, q),
                     InventoryRow("W2", DefaultSKU, 1)>>]
    /\ SessionLoaded

NextCalls ==
    \/ RunSmartOptimization
    \/ CalculateCustomerCost
    \/ CalculateCustomerCostAuto

SpecCalls == InitCalls /\ [][NextCalls]_vars

(* The Customer Plan tab: a forecast and a plan over two products.  The   *)
(* forecast has at least one row.                                          *)
PlanValues == {0, 1, MaxDemand}

ForecastTables ==
    {<<ForecastRow(DefaultSKU, "CA", d3, d4)>> :
        d3 \in DemandValues, d4 \in DemandValues}
    \cup {<<ForecastRow(DefaultSKU, "CA", d3, d4), ForecastRow(r[1], r[2], d, d)>> :
             d3 \in DemandValues, d4 \in DemandValues, d \in DemandValues,
             r \in {<<DefaultSKU, "PA">>, <<"SKU-B001", "CA">>}}

EditedPlanTables ==
    {<<>>}
    \cup {<<EditedPlanRow(p, "W1", st, u3, u4)>> :
             p \in {DefaultSKU, "SKU-B001"}, st \in {"CA", "PA"},
             u3 \in PlanValues, u4 \in PlanValues}
    \cup {<<EditedPlanRow(p, "W1", st, u3, u4), EditedPlanRow(q, "W2", st2, u, u)>> :
             p \in {DefaultSKU, "SKU-B001"}, st \in {"CA", "PA"},
             u3 \in PlanValues, u4 \in PlanValues,
             q \in {DefaultSKU, "SKU-B001"}, st2 \in {"CA", "PA"},
             u \in PlanValues}

InitPlan ==
    /\ warehouses = <<WarehouseRow("W1", MaxCap), WarehouseRow("W2", MaxCap)>>
    /\ distribution_centers = <<DC_CA, DC_PA>>
    /\ demand_forecast \in ForecastTables
    /\ customer_allocation_plan \in EditedPlanTables
    /\ db = [warehouse_schedule |->
                <<ScheduleRow("W1", DefaultSKU, 0, 0, 0, 0),
                  ScheduleRow("W2", DefaultSKU, 0, 0, 0, 0)>>,
             warehouse_inventory |->
                <<InventoryRow("W1", DefaultSKU, 0),
                  InventoryRow("W2", DefaultSKU, 0)>>]
    /\ SessionLoaded

NextPlan == RenderPlanValidation

SpecPlan == InitPlan /\ [][NextPlan]_vars

---------------------------------------------------------------------------
(* Properties of the smart optimisation (SpecSmart) *)

DemandOf(d, week) == IF week = 3 THEN d.Demand_Week3 ELSE d.Demand_Week4

SmartSolved(week) == smart_results.set /\ ~smart_results.weeks[week].df.none
SmartRows(week) == smart_results.weeks[week].df.rows

RowsOfKey(rows, d) ==
    SelectSeq(rows, LAMBDA r :
        r.Product = d.Product /\ r.Channel = d.Channel /\ r.State = d.State)
RowsOfWarehouse(rows, wh_name) == SelectSeq(rows, LAMBDA r : r.Warehouse = wh_name)

SumUnits(rows) == SumSeq(Map(rows, LAMBDA r : r.Allocated_Units))
SumFromInv(rows) == SumSeq(Map(rows, LAMBDA r : r.Allocated_From_Inv))

WarehouseNamesOf(whs) == {whs[i].Name : i \in 1..Len(whs)}

(* A demand row has a route when some (warehouse, DC) pair matches it *)
HasRoute(d) ==
    /\ warehouses # <<>>
    /\ \E j \in 1..Len(distribution_centers) :
          /\ distribution_centers[j].Channel = d.Channel
          /\ distribution_centers[j].State = d.State

(* The projector formula of the design, on one ledger row *)
LedgerAvailable(row, inventory_df, week) ==
    LET on_hand == SumSeq(Map(SelectSeq(inventory_df, LAMBDA i :
                        i.warehouse_name = row.Warehouse /\ i.sku_code = row.SKU),
                        LAMBDA i : i.quantity_on_hand))
        inbound == row.Incoming_Week3 + (IF week >= 4 THEN row.Incoming_Week4 ELSE 0)
        outbound == row.Outgoing_Week1 + row.Outgoing_Week2
    IN Max(0, on_hand + inbound - outbound)

(* The inventory pool of a warehouse in a period *)
AvailablePool(wh_name, week) ==
    SumSeq(Map(SelectSeq(warehouse_schedule.rows, LAMBDA r : r.Warehouse = wh_name),
               LAMBDA r : LedgerAvailable(r, warehouse_inventory, week)))

(* C1: in every period solved successfully, the allocated units of every   *)
(* row of the demand forecast (from inventory plus shipped, over the rows  *)
(* of its product, channel and state) equal the row's demand.              *)
C1_DemandMetForEveryForecastRow ==
    \A week \in Weeks :
        SmartSolved(week) =>
            \A i \in 1..Len(demand_forecast) :
                SumUnits(RowsOfKey(SmartRows(week), demand_forecast[i]))
                    = DemandOf(demand_forecast[i], week)

(* C2: in every returned allocation the units taken from inventory at a   *)
(* warehouse, summed over all its routes, stay within the warehouse's     *)
(* available inventory of the period (one pool, not one allowance per     *)
(* route).                                                                 *)
C2_InventoryPooledPerWarehouse ==
    \A week \in Weeks :
        SmartSolved(week) =>
            \A wh_name \in WarehouseNamesOf(warehouses) :
                SumFromInv(RowsOfWarehouse(SmartRows(week), wh_name))
                    <= AvailablePool(wh_name, week)

(* C2 witness: a warehouse whose pool is used up by its routes to two    *)
(* different states together                                              *)
C2_Witness ==
    \E week \in Weeks :
        /\ SmartSolved(week)
        /\ \E wh_name \in WarehouseNamesOf(warehouses) :
              LET rows == SelectSeq(RowsOfWarehouse(SmartRows(week), wh_name),
                                    LAMBDA r : r.Allocated_From_Inv > 0)
              IN /\ Len(rows) >= 2
                 /\ rows[1].State # rows[2].State
                 /\ SumFromInv(rows) = AvailablePool(wh_name, week)

(* C3: with capacity enforced, the units allocated at a warehouse (from   *)
(* inventory plus shipped, over all its routes) stay within its Capacity, *)
(* in the allocations of both applications' optimisers.                   *)
C3_CapacityRespected ==
    /\ \A week \in Weeks :
          SmartSolved(week) =>
              \A i \in 1..Len(warehouses) :
                  SumUnits(RowsOfWarehouse(SmartRows(week), warehouses[i].Name))
                      <= warehouses[i].Capacity
    /\ ~v1.smart_allocation.none =>
          \A i \in 1..Len(v1.warehouses) :
              SumUnits(RowsOfWarehouse(v1.smart_allocation.rows,
                                       v1.warehouses[i].Name))
                  <= v1.warehouses[i].Capacity

(* C3 witness: a warehouse filled to capacity, part of it from inventory, *)
(* while another warehouse serves the rest; and the same in an allocation *)
(* of the first application                                                *)
C3_Witness ==
    \E week \in Weeks :
        /\ SmartSolved(week)
        /\ \E i \in 1..Len(warehouses) :
              LET rows == RowsOfWarehouse(SmartRows(week), warehouses[i].Name)
              IN /\ SumUnits(rows) = warehouses[i].Capacity
                 /\ SumFromInv(rows) > 0
                 /\ Len(SmartRows(week)) > Len(rows)
        /\ ~v1.smart_allocation.none
        /\ \E i \in 1..Len(v1.warehouses) :
              LET rows == RowsOfWarehouse(v1.smart_allocation.rows,
                                         v1.warehouses[i].Name)
              IN /\ SumUnits(rows) = v1.warehouses[i].Capacity
                 /\ Len(v1.smart_allocation.rows) > Len(rows)

TotalDemand(week) ==
    SumSeq(Map(demand_forecast, LAMBDA d : DemandOf(d, week)))
TotalCapacity == SumSeq(Map(warehouses, LAMBDA w : w.Capacity))

(* C4: when the demand of a period exceeds the combined capacity of the   *)
(* warehouses, the period's result carries no allocation table.           *)
C4_NoPartialAllocationOverCapacity ==
    smart_results.set =>
        \A week \in Weeks :
            TotalDemand(week) > TotalCapacity =>
                smart_results.weeks[week].df.none

(* C5: a period in which some demand requirement has no eligible          *)
(* warehouse fails: no allocation is returned for the other requirements. *)
C5_FailsWhenARequirementHasNoRoute ==
    smart_results.set =>
        \A week \in Weeks :
            (\E i \in 1..Len(demand_forecast) : ~HasRoute(demand_forecast[i]))
                => smart_results.weeks[week].df.none

(* C6: a period without an allocation has no cost (None), never cost 0.   *)
C6_FailedPeriodHasNoCost ==
    smart_results.set =>
        \A week \in Weeks :
            smart_results.weeks[week].df.none
                => smart_results.weeks[week].cost.none

(* C7: no engine call ends with an uncaught exception.                    *)
C7_NeverRaises == call.ended # "raised"

(* The results one period can have when solved on its own, from the       *)
(* static ledger and the given forecast                                    *)
SinglePeriod(week, demand) ==
    LET shipping_costs ==
            calculate_shipping_costs(
                calculate_distance_matrix(warehouses, distribution_centers),
                tms_shipping_rate)
    IN SmartWeek(week, warehouses, demand, shipping_costs.rows,
                 warehouse_schedule, warehouse_inventory)

WithWeek(demand, week, v) ==
    [i \in 1..Len(demand) |->
        IF week = 3 THEN [demand[i] EXCEPT !.Demand_Week3 = v]
                    ELSE [demand[i] EXCEPT !.Demand_Week4 = v]]

OtherWeek(week) == IF week = 3 THEN 4 ELSE 3

(* C9: each period's result is one of the results of solving that period  *)
(* alone; the inventory it sees is the static ledger's; and the possible  *)
(* results of a period do not change with the other period's demand.      *)
C9_PeriodsIndependent ==
    smart_results.set =>
        \A week \in Weeks :
            LET alone == SinglePeriod(week, demand_forecast)
            IN /\ smart_results.weeks[week] \in alone
               /\ \A i \in 1..Len(SmartRows(week)) :
                     SmartRows(week)[i].Current_Available
                         = AvailablePool(SmartRows(week)[i].Warehouse, week)
               /\ \A v \in DemandValues :
                     SinglePeriod(week, WithWeek(demand_forecast, OtherWeek(week), v))
                         = alone

(* C9 witness: week 3 failed, and week 4 was solved all the same, part   *)
(* of it from inventory                                                    *)
C9_Witness ==
    /\ smart_results.set
    /\ smart_results.weeks[3].df.none
    /\ ~smart_results.weeks[3].cost.none
    /\ SmartSolved(4)
    /\ SumFromInv(SmartRows(4)) > 0

---------------------------------------------------------------------------
(* Properties of the inventory projectors (SpecInv) *)

(* max(0, on_hand + inbound up to the week - outbound up to the week),    *)
(* from the ledger stored in the database                                  *)
DesignAvailable(wh_name, sku, week) ==
    LET on_hand == SumSeq(Map(SelectSeq(db.warehouse_inventory, LAMBDA i :
                        i.warehouse_name = wh_name /\ i.sku_code = sku),
                        LAMBDA i : i.quantity_on_hand))
        sched == SelectSeq(db.warehouse_schedule, LAMBDA r :
                        r.warehouse_name = wh_name /\ r.sku_code = sku)
        inbound == SumSeq(Map(sched, LAMBDA r :
                        r.incoming_week3 + (IF week >= 4 THEN r.incoming_week4 ELSE 0)))
        outbound == SumSeq(Map(sched, LAMBDA r : r.outgoing_week1 + r.outgoing_week2))
    IN Max(0, on_hand + inbound - outbound)

(* C8: every projected quantity, of either projector, is                  *)
(* max(0, on_hand + inbound up to the week - outbound up to the week).    *)
C8_ProjectorFormula ==
    \A i \in 1..Len(projection.rows) :
        LET r == projection.rows[i]
        IN r.Available = DesignAvailable(r.Name, r.SKU, r.Week)

---------------------------------------------------------------------------
(* Properties of the plan costing heuristic (SpecManual) *)

CustomerRows(week) == customer_results.weeks[week].df.rows

(* C10: the heuristic credits, over the plan rows of a warehouse, at most *)
(* the warehouse's available inventory of the period.                     *)
C10_HeuristicWithinInventory ==
    customer_results.set =>
        \A week \in Weeks :
            \A wh_name \in PlanWarehouses :
                SumFromInv(RowsOfWarehouse(CustomerRows(week), wh_name))
                    <= AvailablePool(wh_name, week)

(* C10 witness: two plan rows of one warehouse, to different demand       *)
(* points, share its inventory and use it up; the second is only partly   *)
(* covered                                                                 *)
C10_Witness ==
    /\ customer_results.set
    /\ \E week \in Weeks, wh_name \in PlanWarehouses :
          LET rows == RowsOfWarehouse(CustomerRows(week), wh_name)
          IN /\ Len(rows) = 2
             /\ rows[1].State # rows[2].State
             /\ \A i \in 1..2 : rows[i].Allocated_From_Inv > 0
             /\ \E i \in 1..2 : rows[i].Allocated_Shipped > 0
             /\ SumFromInv(rows) = AvailablePool(wh_name, week)


---------------------------------------------------------------------------
(* Properties of the plan validation (SpecPlan) *)

(* The plan quantity of the rows matching a requirement's product,        *)
(* channel and region                                                      *)
PlanSum(d, week) ==
    SumSeq(Map(RowsOfKey(customer_allocation_plan, d), LAMBDA p :
        IF week = 3 THEN p.Allocated_Units_Week3 ELSE p.Allocated_Units_Week4))

ValidationRowOf(i, week) == validation.rows[2 * (i - 1) + (week - 2)]

(* C11: the validation sums, for each requirement and period, the plan    *)
(* quantities of exactly the plan rows that match the requirement's       *)
(* product, channel and region, and flags the requirement as exact, over  *)
(* or under accordingly.                                                   *)
C11_ValidationSumsMatchingRows ==
    validation.rendered =>
        \A i \in 1..Len(demand_forecast) : \A week \in Weeks :
            LET d == demand_forecast[i]
                row == ValidationRowOf(i, week)
            IN /\ row.Allocated = PlanSum(d, week)
               /\ row.Status = "OK" <=> PlanSum(d, week) = DemandOf(d, week)
               /\ row.Status = "High" <=> PlanSum(d, week) > DemandOf(d, week)
               /\ row.Status = "Low" <=> PlanSum(d, week) < DemandOf(d, week)

(* C12: whenever the plan allocates less or more than some requirement    *)
(* in some period, the outcome of the validation is not "all demands      *)
(* met"; the validation leaves the plan as it is.                          *)
C12_MismatchIsNotAllMet ==
    validation.rendered =>
        ((\E i \in 1..Len(demand_forecast) : \E week \in Weeks :
             PlanSum(demand_forecast[i], week) # DemandOf(demand_forecast[i], week))
         => ~validation.all_valid)

---------------------------------------------------------------------------
(* Properties of the plan costing (SpecManual), continued *)

ManualReturned ==
    call = [fn |-> "calculate_customer_cost_manual", ended |-> "returned"]

(* A plan row resolves when its warehouse and its (channel, region) are   *)
(* both in the configuration                                               *)
Resolves(plan) ==
    /\ \E i \in 1..Len(warehouses) : warehouses[i].Name = plan.Warehouse
    /\ \E j \in 1..Len(distribution_centers) :
          /\ distribution_centers[j].Channel = plan.Channel
          /\ distribution_centers[j].State = plan.State

(* C13: a plan row whose warehouse or (channel, region) is not in the     *)
(* configuration gets a validation warning for that row, and the costing  *)
(* still returns the rows that resolve, for each period.                   *)
C13_UnresolvedRowIsWarned ==
    ManualReturned =>
        /\ \A i \in 1..Len(customer_allocation_plan) :
              LET plan == customer_allocation_plan[i]
              IN ~Resolves(plan) =>
                    \E k \in 1..Len(warnings) :
                        /\ warnings[k].Warehouse = plan.Warehouse
                        /\ warnings[k].Channel = plan.Channel
                        /\ warnings[k].State = plan.State
        /\ \A week \in Weeks :
              /\ ~customer_results.weeks[week].df.none
              /\ Len(CustomerRows(week)) =
                    Len(SelectSeq(customer_allocation_plan, Resolves))

---------------------------------------------------------------------------
(* Properties of the customer plan optimised without capacities (SpecAuto) *)

AutoReturned ==
    /\ call = [fn |-> "calculate_customer_cost_auto", ended |-> "returned"]
    /\ auto_results.set

(* The requirement has a route from one of the selected warehouses *)
HasTargetRoute(d) ==
    /\ \E i \in 1..Len(warehouses) :
          warehouses[i].Name \in customer_selected_warehouses
    /\ \E j \in 1..Len(distribution_centers) :
          /\ distribution_centers[j].Channel = d.Channel
          /\ distribution_centers[j].State = d.State

WithCapacity(whs, c) == Map(whs, LAMBDA w : [w EXCEPT !.Capacity = c])

TargetCapacity ==
    SumSeq(Map(SelectSeq(warehouses,
                         LAMBDA w : w.Name \in customer_selected_warehouses),
               LAMBDA w : w.Capacity))

(* C14: with ignore_capacity set the Capacity values have no effect on    *)
(* the result, and the solve succeeds whenever every requirement has a    *)
(* route, also when the demand exceeds the capacity of the warehouses.    *)
C14_CapacityIgnored ==
    AutoReturned =>
        /\ \A c \in {0, MaxCap} :
              [status |-> "returned", weeks |-> auto_results.weeks] \in
                 calculate_customer_cost_auto(WithCapacity(warehouses, c),
                     distribution_centers, demand_forecast, warehouse_schedule,
                     warehouse_inventory, customer_selected_warehouses)
        /\ (demand_forecast # <<>> /\ \A i \in 1..Len(demand_forecast) :
                                          HasTargetRoute(demand_forecast[i]))
              => \A week \in Weeks : ~auto_results.weeks[week].df.none

C14_Witness ==
    /\ AutoReturned
    /\ \A i \in 1..Len(demand_forecast) : HasTargetRoute(demand_forecast[i])
    /\ ~auto_results.weeks[3].df.none
    /\ SumUnits(auto_results.weeks[3].df.rows) > TargetCapacity

---------------------------------------------------------------------------
(* Properties of the LP solver called on a route table (SpecLP) *)

LPRows == lp.result.df.rows
LPSolved == lp.called /\ ~lp.result.df.none

(* C15: one warehouse of capacity 1000 with 200 units available and one   *)
(* demand point asking for 500 units at 0.10 per shipped unit give 200    *)
(* units from inventory, 300 shipped and a total cost of 30.00.           *)
C15_OneRouteScenario ==
    (lp.called /\ lp.allocation_df = Scenario_OneRoute.allocation_df
               /\ lp.inventory_df = Scenario_OneRoute.inventory_df
               /\ lp.warehouses_df = Scenario_OneRoute.warehouses_df
               /\ ~lp.ignore_capacity) =>
        /\ ~lp.result.df.none
        /\ Len(LPRows) = 1
        /\ LPRows[1].Allocated_From_Inv = 200
        /\ LPRows[1].Allocated_Shipped = 300
        /\ lp.result.cost = SomeCost(3000)

C15_Witness ==
    /\ lp.called
    /\ lp.allocation_df = Scenario_OneRoute.allocation_df
    /\ lp.inventory_df = Scenario_OneRoute.inventory_df
    /\ lp.warehouses_df = Scenario_OneRoute.warehouses_df
    /\ LPRows[1].Allocated_Units = 500

(* Two routes to one demand point from two warehouses at different costs, *)
(* the cheaper warehouse able to take the whole demand: cheap and dear    *)
(* are the indices of the two routes                                       *)
TwoRoutes(cheap, dear) ==
    /\ lp.called
    /\ Len(lp.allocation_df) = 2
    /\ {cheap, dear} = {1, 2}
    /\ DemandKey(lp.allocation_df[1]) = DemandKey(lp.allocation_df[2])
    /\ lp.allocation_df[1].Warehouse # lp.allocation_df[2].Warehouse
    /\ lp.allocation_df[cheap].Cost_Per_Unit < lp.allocation_df[dear].Cost_Per_Unit
    /\ \/ lp.ignore_capacity
       \/ /\ cap_val(lp.warehouses_df, lp.allocation_df[cheap].Warehouse)
                >= lp.allocation_df[1].Demand
          /\ cap_val(lp.warehouses_df, lp.allocation_df[dear].Warehouse)
                >= lp.allocation_df[1].Demand

AllOnRoute(i) ==
    /\ ~lp.result.df.none
    /\ Len(LPRows) = 1
    /\ LPRows[1].Warehouse = lp.allocation_df[i].Warehouse
    /\ LPRows[1].Allocated_Units = lp.allocation_df[i].Demand

(* C16 as stated: with two routes to one demand point at different costs, *)
(* the cheaper warehouse able to cover the demand and no capacity         *)
(* binding, the whole demand goes to the cheaper route.                    *)
C16_AllToCheaperRoute ==
    \A cheap, dear \in {1, 2} : TwoRoutes(cheap, dear) => AllOnRoute(cheap)

(* C16, amended: the same, when the dearer warehouse has no available     *)
(* inventory (units taken from inventory cost nothing, whatever the route) *)
C16_AllToCheaperRouteWithoutDearInventory ==
    \A cheap, dear \in {1, 2} :
        (/\ TwoRoutes(cheap, dear)
         /\ avail_val(lp.inventory_df, lp.allocation_df[dear].Warehouse) = 0)
        => AllOnRoute(cheap)

C16_Witness ==
    \E cheap, dear \in {1, 2} :
        /\ TwoRoutes(cheap, dear)
        /\ avail_val(lp.inventory_df, lp.allocation_df[dear].Warehouse) = 0
        /\ AllOnRoute(cheap)
        /\ LPRows[1].Allocated_Shipped > 0

(* Every warehouse named in the route table has no available inventory *)
ZeroInventory ==
    \A i \in 1..Len(lp.allocation_df) :
        avail_val(lp.inventory_df, lp.allocation_df[i].Warehouse) = 0

(* The demand requirements behind the route table: the forecast rows that *)
(* were joined with the cost table, one per (key, Demand) of its rows     *)
Requirements(allocation_df) ==
    {<<DemandKey(allocation_df[i]), allocation_df[i].Demand>> :
        i \in 1..Len(allocation_df)}

LowestCost(allocation_df, key) ==
    LET costs == {allocation_df[i].Cost_Per_Unit :
                     i \in {j \in 1..Len(allocation_df) :
                               DemandKey(allocation_df[j]) = key}}
    IN CHOOSE c \in costs : \A u \in costs : c <= u

RECURSIVE TransportSum(_, _)
TransportSum(allocation_df, reqs) ==
    IF reqs = {} THEN 0
    ELSE LET q == CHOOSE x \in reqs : TRUE
         IN q[2] * LowestCost(allocation_df, q[1])
               + TransportSum(allocation_df, reqs \ {q})

TransportationOptimum(allocation_df) ==
    TransportSum(allocation_df, Requirements(allocation_df))

(* C17: with ignore_capacity set and no available inventory anywhere, no  *)
(* route takes units from inventory and the optimal cost is the sum over  *)
(* the demand requirements of demand times the lowest cost per unit among *)
(* the requirement's routes.                                               *)
C17_ReducesToTransportation ==
    (lp.called /\ lp.ignore_capacity /\ ZeroInventory) =>
        /\ ~lp.result.df.none
        /\ \A i \in 1..Len(LPRows) : LPRows[i].Allocated_From_Inv = 0
        /\ lp.result.cost = SomeCost(TransportationOptimum(lp.allocation_df))

(* The rows of t in the order given by the permutation f of its indices *)
Permuted(t, f) == [i \in 1..Len(t) |-> t[f[i]]]

(* C18: any permutation of the rows of the route table gives the same     *)
(* optimal total cost.                                                     *)
C18_CostInvariantUnderPermutation ==
    lp.called =>
        \A f \in Permutations(1..Len(lp.allocation_df)) :
            \A r \in solve_lp_with_inventory(Permuted(lp.allocation_df, f),
                         lp.inventory_df, lp.warehouses_df, lp.ignore_capacity) :
                r.cost = lp.result.cost

---------------------------------------------------------------------------
(* Properties of the plan costing heuristic (SpecManual), continued *)

(* C19: within a warehouse the inventory goes to the rows in descending   *)
(* order of Cost_Per_Unit: a row takes units from inventory only if every *)
(* row of the same warehouse with a strictly higher cost is fully covered *)
(* (its Allocated_Shipped is 0).                                           *)
C19_InventoryInDescendingCostOrder ==
    customer_results.set =>
        \A week \in Weeks :
            LET rows == CustomerRows(week)
            IN \A i, j \in 1..Len(rows) :
                  (/\ rows[i].Warehouse = rows[j].Warehouse
                   /\ rows[j].Cost_Per_Unit > rows[i].Cost_Per_Unit
                   /\ rows[i].Allocated_From_Inv > 0)
                  => rows[j].Allocated_Shipped = 0

C19_Witness ==
    /\ customer_results.set
    /\ \E week \in Weeks :
          LET rows == CustomerRows(week)
          IN \E i, j \in 1..Len(rows) :
                /\ rows[i].Warehouse = rows[j].Warehouse
                /\ rows[j].Cost_Per_Unit > rows[i].Cost_Per_Unit
                /\ rows[i].Allocated_From_Inv > 0
                /\ rows[i].Allocated_Shipped > 0
                /\ rows[j].Allocated_From_Inv = rows[j].Allocated_Units

(* The ways of splitting each row into an inventory part and a shipped    *)
(* part that keep every warehouse's inventory use within its available    *)
(* amount: from_inv[i] is the inventory part of row i                      *)
Splits(rows, week) ==
    {from_inv \in [1..Len(rows) -> 0..(MaxDemand + 1)] :
        /\ \A i \in 1..Len(rows) : from_inv[i] <= rows[i].Allocated_Units
        /\ \A wh_name \in PlanWarehouses :
              SumOver(from_inv, {i \in 1..Len(rows) : rows[i].Warehouse = wh_name})
                  <= AvailablePool(wh_name, week)}

SplitCost(rows, from_inv) ==
    SumOver([i \in 1..Len(rows) |->
                (rows[i].Allocated_Units - from_inv[i]) * rows[i].Cost_Per_Unit],
            1..Len(rows))

(* C20: the heuristic's total cost is the minimum, over all such splits,  *)
(* of the sum of shipped units times Cost_Per_Unit.                        *)
C20_HeuristicCostIsMinimal ==
    customer_results.set =>
        \A week \in Weeks :
            LET rows == CustomerRows(week)
                total_cost == customer_results.weeks[week].cost.val
            IN /\ \E from_inv \in Splits(rows, week) :
                     SplitCost(rows, from_inv) = total_cost
               /\ \A from_inv \in Splits(rows, week) :
                     SplitCost(rows, from_inv) >= total_cost

C20_Witness ==
    /\ customer_results.set
    /\ \E week \in Weeks :
          LET rows == CustomerRows(week)
          IN /\ Len(rows) = 2
             /\ rows[1].Warehouse = rows[2].Warehouse
             /\ rows[1].Cost_Per_Unit # rows[2].Cost_Per_Unit
             /\ SumFromInv(rows) > 0
             /\ customer_results.weeks[week].cost.val > 0
             /\ customer_results.weeks[week].cost.val
                   < SplitCost(rows, [i \in 1..2 |-> 0])

PlanQuantity(plan, week) ==
    IF week = 3 THEN plan.Allocated_Units_Week3 ELSE plan.Allocated_Units_Week4

(* C21: every plan row that resolves to a route has an output row that    *)
(* keeps the plan's quantity of the period as Allocated_Units and splits  *)
(* it exactly into Allocated_From_Inv and Allocated_Shipped; the period's *)
(* total cost is the sum of Allocated_Shipped times Cost_Per_Unit.        *)
C21_QuantityKeptAndSplitExactly ==
    customer_results.set =>
        \A week \in Weeks :
            LET rows == CustomerRows(week)
                resolved == SelectSeq(customer_allocation_plan, Resolves)
            IN /\ Len(rows) = Len(resolved)
               /\ \A i \in 1..Len(rows) :
                     /\ rows[i].Warehouse = resolved[i].Warehouse
                     /\ rows[i].State = resolved[i].State
                     /\ rows[i].Allocated_Units = PlanQuantity(resolved[i], week)
                     /\ rows[i].Allocated_From_Inv + rows[i].Allocated_Shipped
                           = rows[i].Allocated_Units
               /\ customer_results.weeks[week].cost.val =
                     SumSeq(Map(rows, LAMBDA r :
                         r.Allocated_Shipped * r.Cost_Per_Unit))

C21_Witness ==
    /\ customer_results.set
    /\ Len(customer_allocation_plan) = 2
    /\ Len(SelectSeq(customer_allocation_plan, Resolves)) = 1
    /\ \E week \in Weeks :
          /\ Len(CustomerRows(week)) = 1
          /\ CustomerRows(week)[1].Allocated_From_Inv > 0
          /\ CustomerRows(week)[1].Allocated_Shipped > 0

---------------------------------------------------------------------------
(* Properties of the engines called in any order (SpecCalls) *)

ResultRows(results, week) ==
    IF results.set /\ ~results.weeks[week].df.none
    THEN results.weeks[week].df.rows ELSE <<>>

(* C22: in every allocation record of the LP solver and of the plan       *)
(* costing heuristic, the units from inventory and the units shipped are  *)
(* both non-negative.                                                      *)
C22_SplitsNonNegative ==
    \A week \in Weeks :
        \A results \in {smart_results, auto_results, customer_results} :
            \A i \in 1..Len(ResultRows(results, week)) :
                /\ ResultRows(results, week)[i].Allocated_From_Inv >= 0
                /\ ResultRows(results, week)[i].Allocated_Shipped >= 0

C22_Witness ==
    \E week \in Weeks :
        /\ \E i \in 1..Len(ResultRows(smart_results, week)) :
              /\ ResultRows(smart_results, week)[i].Allocated_From_Inv > 0
              /\ ResultRows(smart_results, week)[i].Allocated_Shipped > 0
        /\ \E i \in 1..Len(ResultRows(customer_results, week)) :
              /\ ResultRows(customer_results, week)[i].Allocated_From_Inv > 0
              /\ ResultRows(customer_results, week)[i].Allocated_Shipped > 0

---------------------------------------------------------------------------
(* Properties of the plan costing heuristic (SpecManual), tie-break *)

RowSet(rows) == {rows[i] : i \in 1..Len(rows)}

(* C23: for the same plan rows and the same inventory the split of each   *)
(* row into units from inventory and units shipped is the same for every  *)
(* order of the plan rows, also when rows of one warehouse have the same  *)
(* Cost_Per_Unit and the inventory cannot cover them all.                  *)
C23_SplitIndependentOfPlanOrder ==
    (ManualReturned /\ customer_results.set) =>
        \A f \in Permutations(1..Len(customer_allocation_plan)) :
            \A res \in calculate_customer_cost_manual(
                           Permuted(customer_allocation_plan, f), warehouses,
                           distribution_centers, warehouse_schedule,
                           warehouse_inventory) :
                \A week \in Weeks :
                    RowSet(res.weeks[week].df.rows) = RowSet(CustomerRows(week))

---------------------------------------------------------------------------
(* Properties of the engines called in any order (SpecCalls), continued *)

inputs == <<warehouses, distribution_centers, demand_forecast,
            customer_allocation_plan, warehouse_inventory, warehouse_schedule>>

(* The outcome of each period: solved or not, and its cost *)
Outcome(results) ==
    [w \in Weeks |-> <<results.weeks[w].df.none, results.weeks[w].cost>>]

Modes == {"Auto", "Manual"}

(* What the costing of one mode returns on the session's tables *)
ModeResults(mode) ==
    IF mode = "Auto"
    THEN calculate_customer_cost_auto(warehouses, distribution_centers,
             demand_forecast, warehouse_schedule, warehouse_inventory,
             customer_selected_warehouses)
    ELSE calculate_customer_cost_manual(customer_allocation_plan, warehouses,
             distribution_centers, warehouse_schedule, warehouse_inventory)

(* C25: calculate_customer_cost_multi_week supports the modes Auto and    *)
(* Manual and returns the result of the selected one: whichever mode is   *)
(* selected, the result it stored is a result of that mode's costing.     *)
C25_ReturnsSelectedMode ==
    (customer_results.set /\ call.fn = "calculate_customer_cost_manual"
                          /\ call.ended = "returned")
        => \A mode \in Modes :
              \E res \in ModeResults(mode) :
                 /\ res.status = "returned"
                 /\ Outcome([set |-> TRUE, weeks |-> res.weeks])
                       = Outcome(customer_results)

---------------------------------------------------------------------------
(* Properties of solve_lp_with_inventory (SpecLP), continued *)

RowsOf(rows, wh_name) == SelectSeq(rows, LAMBDA r : r.Warehouse = wh_name)

(* C26: in an optimal solution no warehouse ships units on a route with a *)
(* positive cost_per_unit while part of its available inventory is        *)
(* unused: the sum of Allocated_From_Inv equals its available inventory,  *)
(* or Allocated_Shipped is 0 on all of its positive-cost routes.          *)
C26_NoShippingWhileInventoryUnused ==
    LPSolved =>
        \A wh_name \in unique_warehouses(lp.allocation_df) :
            LET rows == RowsOf(LPRows, wh_name)
            IN \/ SumFromInv(rows) = avail_val(lp.inventory_df, wh_name)
               \/ \A i \in 1..Len(rows) :
                     rows[i].Cost_Per_Unit > 0 => rows[i].Allocated_Shipped = 0

(* A warehouse with two routes that uses all its inventory and ships, and *)
(* another one that keeps inventory and ships nothing                      *)
C26_Witness ==
    /\ LPSolved
    /\ \E wh_name \in unique_warehouses(lp.allocation_df) :
          LET rows == RowsOf(LPRows, wh_name)
          IN /\ Len(rows) = 2
             /\ avail_val(lp.inventory_df, wh_name) > 0
             /\ SumFromInv(rows) = avail_val(lp.inventory_df, wh_name)
             /\ \E i \in 1..Len(rows) : rows[i].Allocated_Shipped > 0
    /\ \E wh_name \in unique_warehouses(lp.allocation_df) :
          LET rows == RowsOf(LPRows, wh_name)
          IN /\ SumFromInv(rows) < avail_val(lp.inventory_df, wh_name)
             /\ \A i \in 1..Len(rows) : rows[i].Allocated_Shipped = 0

---------------------------------------------------------------------------
(* The LP against the heuristic on one session (SpecCalls) *)

UniqueDemandKeys ==
    \A i, j \in 1..Len(demand_forecast) :
        DemandKey(demand_forecast[i]) = DemandKey(demand_forecast[j]) => i = j

(* The plan meets every demand requirement of the week exactly and every  *)
(* one of its rows is a route of the configuration                         *)
PlanMeetsDemand(week) ==
    /\ \A i \in 1..Len(demand_forecast) :
          PlanSum(demand_forecast[i], week) = DemandOf(demand_forecast[i], week)
    /\ \A i \in 1..Len(customer_allocation_plan) :
          Resolves(customer_allocation_plan[i])

PlanWithinCapacity(week) ==
    \A i \in 1..Len(warehouses) :
        SumSeq(Map(SelectSeq(customer_allocation_plan,
                             LAMBDA p : p.Warehouse = warehouses[i].Name),
                   LAMBDA p : PlanQuantity(p, week)))
            <= warehouses[i].Capacity

(* The LP over all warehouses on the session's tables at the rate of the  *)
(* plan costing                                                            *)
LPAtPlanRate(week) ==
    SmartWeek(week, warehouses, demand_forecast,
              calculate_shipping_costs(
                  calculate_distance_matrix(warehouses, distribution_centers),
                  market_shipping_rate).rows,
              warehouse_schedule, warehouse_inventory)

(* C27: at the same shipping rate, with the same available inventory and  *)
(* routes, the optimal cost of the LP over all warehouses is not greater  *)
(* than the heuristic cost of a manual plan that meets every demand       *)
(* requirement exactly and keeps every warehouse within its capacity,     *)
(* demand keys being unique.                                               *)
C27_LPNotDearerThanFeasiblePlan ==
    (customer_results.set /\ UniqueDemandKeys) =>
        \A week \in Weeks :
            (PlanMeetsDemand(week) /\ PlanWithinCapacity(week)) =>
                \A r \in LPAtPlanRate(week) :
                    /\ ~r.df.none
                    /\ r.cost.val <= customer_results.weeks[week].cost.val

(* A feasible plan costed with part of it taken from inventory, and an LP *)
(* optimum that is strictly cheaper                                        *)
C27_Witness ==
    /\ customer_results.set /\ UniqueDemandKeys
    /\ Len(customer_allocation_plan) = 2
    /\ \E week \in Weeks :
          /\ PlanMeetsDemand(week) /\ PlanWithinCapacity(week)
          /\ SumFromInv(CustomerRows(week)) > 0
          /\ customer_results.weeks[week].cost.val > 0
          /\ \E r \in LPAtPlanRate(week) :
                /\ ~r.df.none
                /\ r.cost.val < customer_results.weeks[week].cost.val

---------------------------------------------------------------------------
(* Sessions whose ledger holds two SKUs at warehouse W1 (SpecSku) *)

SecondSKU == SkuList[2]

SkuForecastTables ==
    {<<ForecastRow(p, "CA", d, d)>> : p \in {DefaultSKU, SecondSKU}, d \in DemandValues}
    \cup {<<ForecastRow(DefaultSKU, "CA", d1, d1), ForecastRow(SecondSKU, st, d2, d2)>> :
             d1 \in DemandValues, d2 \in DemandValues, st \in {"CA", "PA"}}

SkuPlanTables ==
    {<<EditedPlanRow(p, "W1", "CA", u, u)>> : p \in {DefaultSKU, SecondSKU}, u \in DemandValues}
    \cup {<<EditedPlanRow(DefaultSKU, "W1", "CA", u1, u1),
            EditedPlanRow(SecondSKU, "W1", "PA", u2, u2)>> :
             u1 \in DemandValues, u2 \in DemandValues}

InitSku ==
    /\ warehouses = <<WarehouseRow("W1", MaxCap), WarehouseRow("W2", MaxCap)>>
    /\ distribution_centers = <<DC_CA, DC_PA>>
    /\ demand_forecast \in SkuForecastTables
    /\ customer_allocation_plan \in SkuPlanTables
    /\ \E q1 \in OnHandValues, q2 \in OnHandValues, first \in {DefaultSKU, SecondSKU} :
          LET second == IF first = DefaultSKU THEN SecondSKU ELSE DefaultSKU
          IN db = [warehouse_schedule |->
                      <<ScheduleRow("W1", first, 0, 0, 0, 0),
                        ScheduleRow("W1", second, 0, 0, 0, 0),
                        ScheduleRow("W2", DefaultSKU, 0, 0, 0, 0)>>,
                   warehouse_inventory |->
                      <<InventoryRow("W1", DefaultSKU, q1),
                        InventoryRow("W1", SecondSKU, q2),
                        InventoryRow("W2", DefaultSKU, 0)>>]
    /\ SessionLoaded

NextSku == RunSmartOptimization \/ CalculateCustomerCost

SpecSku == InitSku /\ [][NextSku]_vars

(* The available quantity of one SKU at one warehouse, from the ledger *)
SkuAvailable(wh_name, sku, week) ==
    SumSeq(Map(SelectSeq(calculate_available_inventory(week, warehouse_schedule,
                             warehouse_inventory, warehouses),
                         LAMBDA r : r.Name = wh_name /\ r.SKU = sku),
               LAMBDA r : r.Available))

CreditedWithin(results, week) ==
    \A wh_name \in PlanWarehouses, sku \in {DefaultSKU, SecondSKU} :
        SumFromInv(SelectSeq(ResultRows(results, week), LAMBDA r :
                       r.Warehouse = wh_name /\ r.Product = sku))
            <= SkuAvailable(wh_name, sku, week)

(* C28: when a warehouse holds several SKUs, the inventory credited to    *)
(* the routes of a product at that warehouse, by the LP and by the        *)
(* heuristic, never exceeds the warehouse's available inventory of that   *)
(* product's own SKU.                                                      *)
C28_CreditWithinOwnSku ==
    \A week \in Weeks :
        /\ smart_results.set => CreditedWithin(smart_results, week)
        /\ customer_results.set => CreditedWithin(customer_results, week)

(* The same for the LP alone and for the heuristic alone *)
C28_LPPart == \A week \in Weeks : smart_results.set => CreditedWithin(smart_results, week)
C28_HeuristicPart == \A week \in Weeks : customer_results.set => CreditedWithin(customer_results, week)

---------------------------------------------------------------------------
(* A session of page renders and schedule saves (SpecSchedule) *)

(* "Save Schedule" of the Add/Update Schedule form, with the rerun that   *)
(* renders the Inventory tab again                                         *)
SaveSchedule ==
    /\ warehouses # <<>>
    /\ \E w \in 1..Len(warehouses), sch_sku \in {SkuList[1], SkuList[2]},
          current_inv \in OnHandValues, in_w3 \in FlowValues,
          in_w4 \in FlowValues, out_w1 \in FlowValues :
          LET sch_wh == warehouses[w].Name
              schedule == save_warehouse_schedule(db.warehouse_schedule, sch_wh,
                                                  sch_sku, in_w3, in_w4, out_w1, 0)
              inventory == update_warehouse_inventory(db.warehouse_inventory,
                                                      sch_wh, sch_sku, current_inv)
          IN /\ db' = [warehouse_schedule |-> schedule,
                       warehouse_inventory |-> inventory]
             /\ warehouse_schedule' =
                   Loaded(get_warehouse_schedule(schedule, warehouses))
             /\ projection' =
                   IF get_warehouse_schedule(schedule, warehouses) # <<>>
                   THEN [source |-> "db",
                         rows |-> available_data(schedule, warehouses)]
                   ELSE projection
    /\ UNCHANGED <<warehouses, distribution_centers, demand_forecast,
                   customer_allocation_plan, warehouse_inventory,
                   customer_selected_warehouses,
                   smart_results, customer_results, smart_total, call, v1,
                   validation, warnings, lp, auto_results>>

InitSchedule ==
    /\ warehouses = <<WarehouseRow("W1", MaxCap)>>
    /\ distribution_centers = <<DC_CA, DC_PA>>
    /\ demand_forecast = <<>>
    /\ customer_allocation_plan = <<>>
    /\ \E q \in OnHandValues :
          db \in {[warehouse_schedule |-> sch,
                   warehouse_inventory |-> <<InventoryRow("W1", DefaultSKU, q)>>] :
                     sch \in {<<>>, <<ScheduleRow("W1", DefaultSKU, 0, 0, 0, 0)>>}}
    /\ SessionLoaded

NextSchedule == ProjectForWeek \/ RenderInventoryProjection \/ SaveSchedule

SpecSchedule == InitSchedule /\ [][NextSchedule]_vars

(* The projector applied to what the database holds now *)
ProjectionOfDatabase(week) ==
    calculate_available_inventory(week,
        Loaded(get_warehouse_schedule(db.warehouse_schedule, warehouses)),
        db.warehouse_inventory, warehouses)

ProjectionOfSession(week) ==
    calculate_available_inventory(week, warehouse_schedule, warehouse_inventory,
                                  warehouses)

(* C29: at every point of a session, what calculate_available_inventory   *)
(* computes for a week equals the projector formula applied to the        *)
(* on-hand quantities and the schedule stored in the database: never the  *)
(* all-zero fallback while the database holds a schedule, and with the    *)
(* new on-hand quantity after "Save Schedule".                             *)
C29_ProjectionFollowsDatabase ==
    \A week \in Weeks : ProjectionOfSession(week) = ProjectionOfDatabase(week)

(* The part of C29 about the schedule alone: the session's schedule is    *)
(* the database's                                                          *)
C29_SchedulePart ==
    warehouse_schedule = Loaded(get_warehouse_schedule(db.warehouse_schedule, warehouses))

---------------------------------------------------------------------------
(* The two projectors side by side (SpecInv) *)

(* The rows of app_v2.calculate_available_inventory(week) for one         *)
(* warehouse and SKU                                                       *)
SessionRows(wh_name, sku, week) ==
    SelectSeq(ProjectionOfSession(week),
              LAMBDA r : r.Name = wh_name /\ r.SKU = sku)

(* C30: for every warehouse, SKU and week, the quantity shown by          *)
(* db.calculate_available_inventory in the Inventory tab is the Available *)
(* of the row of that warehouse and SKU returned by                       *)
(* app_v2.calculate_available_inventory, given the same ledger.           *)
C30_ProjectorsAgree ==
    (/\ projection.source = "db"
     /\ warehouse_inventory = db.warehouse_inventory
     /\ warehouse_schedule
           = Loaded(get_warehouse_schedule(db.warehouse_schedule, warehouses)))
    => \A i \in 1..Len(projection.rows) :
          LET shown == projection.rows[i]
              rows == SessionRows(shown.Name, shown.SKU, shown.Week)
          IN \A j \in 1..Len(rows) : rows[j].Available = shown.Available

====
